---- MODULE Spec2Model ----
(***************************************************************************)
(* A model of the content pipeline of the `thought` static site generator: *)
(* the article values and their fingerprints (src/src/article.rs), the     *)
(* render cache (src/src/cache.rs), the hook chain (src/src/plugin.rs),    *)
(* plugin resolution (src/src/plugin.rs, src/src/metadata.rs), the full    *)
(* generate of the engine (src/src/engine.rs) and the preview server       *)
(* (src/src/serve.rs).                                                     *)
(*                                                                         *)
(* Strings that are joined, split or suffixed by the code (slugs, locales, *)
(* category segments, paths) are sequences of one-character strings, so    *)
(* that join and format are computed and not assumed injective.  Opaque    *)
(* payloads (markdown bodies, timestamps, tags) are small naturals.        *)
(* An optional value is <<>> (None) or <<x>> (Some(x)).                    *)
(***************************************************************************)
EXTENDS Naturals, Sequences, FiniteSets, TLC

VARIABLES
    \* the content store, the plugin set and the render cache (cache.redb)
    fs, theme, hooks, cache, lastStore

cacheVars == <<fs, theme, hooks, cache, lastStore>>

VARIABLES
    \* one run of the article pipeline: the article given, the position in
    \* the chain, the article and html passed along, and the guest calls made
    pArticle, pc, pIdx, pCur, pHtml, pLog

pipeVars == <<pArticle, pc, pIdx, pCur, pHtml, pLog>>

VARIABLES
    \* plugin resolution: the plugins as Thought.toml declares them, the order
    \* the registry hands them out, the position of the loop of resolve, the
    \* theme slot, the hooks loaded so far and the outcome
    declared, specs, rIdx, theme_slot, rHooks, rpc

resolveVars == <<declared, specs, rIdx, theme_slot, rHooks, rpc>>

VARIABLES
    \* one full generate of the engine: the map read from .meta.json, the two
    \* vectors of the collection loop, the spawned render tasks, the position
    \* of the await loop, the position of generate and the output directory
    map, articles_preview, changed_articles, render_task, awaitIdx, epc, output

engineVars ==
    <<map, articles_preview, changed_articles, render_task, awaitIdx, epc, output>>

VARIABLES
    \* the preview server: the requests in flight, the table of article
    \* guards, the mutexes the table refers to (each with its holder), and
    \* the flags of ServeState
    requests, article_guards, mutexes, index_dirty, index_fingerprint, search_ready,
    \* the holders of index_lock and search_lock (0: free), and whether an
    \* article render has completed and no regeneration of the index has
    \* begun since
    index_lock, search_lock, index_due

serveLocks == <<index_lock, search_lock, index_due>>

serveVars ==
    <<requests, article_guards, mutexes, index_dirty, index_fingerprint, search_ready,
      serveLocks>>

VARIABLES
    \* the fingerprints taken so far: the article hashed and its sha256
    digests

hashVars == <<digests>>

VARIABLES
    \* the searcher: the documents of the search index, the fingerprint kept
    \* in the meta database, the running call of ensure_index, and the
    \* fingerprints of the content at each emission of the search bundle
    search_index, search_meta, sCall, emissions

searchVars == <<search_index, search_meta, sCall, emissions>>

VARIABLES
    \* the search payload: the articles of the workspace stream, the wasm
    \* module built from them, what a reader of the module parsed
    articles_in, wasm, parsed

wasmVars == <<articles_in, wasm, parsed>>

VARIABLES
    \* the last call of RenderCache::hit or RenderCache::store: what it was,
    \* the step that failed, what it returned, the table before it
    cacheCall

cacheIoVars == <<cacheCall>>

VARIABLES
    \* the directory of one plugin under .cache/plugins, and the last call
    \* of resolve_plugin for that plugin with what it did
    plugin_dir, rCall

pluginVars == <<plugin_dir, rCall>>

VARIABLES
    \* extract: the markdown document as blocks, the parser events not yet
    \* consumed, and the locals of extract
    md, events, extraction

extractVars == <<md, events, extraction>>

VARIABLES
    \* Article::open_with_locale: the article directory on disk (its .md
    \* files and the lang of Article.toml) and the result of the last call
    article_dir, last_open

openVars == <<article_dir, last_open>>

VARIABLES
    \* output naming and URL resolution: the article variants on disk, the
    \* last request path resolved, the table from render-cache key to the
    \* variant stored under it, and the variants stored so far
    on_disk, resolved, key_table, stored_variants

namingVars == <<on_disk, resolved, key_table, stored_variants>>

vars ==
    <<cacheVars, pipeVars, resolveVars, engineVars, serveVars, hashVars, searchVars,
      wasmVars, cacheIoVars, pluginVars, extractVars, openVars, namingVars>>

(***************************************************************************)
(* Bounds of the model.                                                    *)
(***************************************************************************)
\* number of distinct markdown bodies an article file can hold
MaxDoc == 1

\* number of distinct Article.toml contents (tags) an article can hold
MaxMeta == 1

(***************************************************************************)
(* Small helpers.                                                          *)
(***************************************************************************)
NoneV == <<>>

Some(x) == <<x>>

IsSome(o) == Len(o) = 1

Unwrap(o) == o[1]

RECURSIVE JoinWith(_, _)
\* slice::join(sep): the segments with sep between neighbours
JoinWith(segs, sep) ==
    IF Len(segs) = 0 THEN <<>>
    ELSE IF Len(segs) = 1 THEN segs[1]
    ELSE segs[1] \o sep \o JoinWith(Tail(segs), sep)

RECURSIVE SeqToSet(_)
SeqToSet(s) == IF Len(s) = 0 THEN {} ELSE {Head(s)} \cup SeqToSet(Tail(s))

\* all sequences without repetition over the set S, of every length
RECURSIVE Orderings(_)
Orderings(S) ==
    IF S = {} THEN {<<>>}
    ELSE UNION { { <<x>> \o rest : rest \in Orderings(S \ {x}) } : x \in S }

(***************************************************************************)
(* The content store: article directories under <root>/articles.           *)
(***************************************************************************)
\* the locale codes that occur: "en" and "zh"
En == <<"e", "n">>

Zh == <<"z", "h">>

Locales == {En, Zh}

\* two places the same workspace bytes can be copied to
Roots == {<<"/", "a">>, <<"/", "b">>}

CatC == <<"c">>

SlugS == <<"s">>

SlugT == <<"t">>

\* article directories, as segments below the content root; the last is the slug
ArticleDirs == { <<SlugS>>, <<CatC, SlugS>>, <<CatC, SlugT>> }

Docs == 0..MaxDoc

Metas == 0..MaxMeta

\* what one article directory holds: Article.toml (tags, lang) and the
\* markdown files: article.md and the <locale>.md translations
DirStates ==
    [ doc : Docs, meta : Metas, lang : Locales, extra : SUBSET Locales ]

AbsentDir == <<>>

\* markdown body of the file of locale l in a directory
ContentOf(d, l) == <<d.doc, l>>

\* extract(): the title is read from the markdown body (see Extract below for
\* the event-level model); here a body determines its title and description
TitleOf(content) == <<"h1", content[1] \div 2, content[2]>>

DescriptionOf(content) == <<"p", content[1] \div 2>>

\* ArticleMetadata as parsed from Article.toml
MetadataOf(d) ==
    [ created |-> 0, tags |-> d.meta, author |-> 0, description |-> NoneV,
      lang |-> NoneV ]

\* Category::dir: the content root joined with the category segments
CategoryDir(root, segments) ==
    JoinWith(<<root, <<"a", "r", "t", "i", "c", "l", "e", "s">>>> \o segments, <<"/">>)

\* locale_to_path: the file that holds the body of a locale
ArticleMd == <<"article.md">>

LocaleFile(locale, default_locale) ==
    IF locale = default_locale THEN ArticleMd ELSE locale

\* the files of a directory: article.md always, <l>.md for the extra locales
HasFile(d, file) == file = ArticleMd \/ file \in d.extra

\* enumerate_locales: one variant per .md file; article.md stands for the
\* default locale, <stem>.md for the locale <stem>
EnumerateLocales(d) ==
    <<d.lang>> \o
    (IF En \in d.extra THEN <<En>> ELSE <<>>) \o
    (IF Zh \in d.extra THEN <<Zh>> ELSE <<>>)

\* Article::open_with_locale: None when the directory or the file is missing
OpenWithLocale(root, files, segments, locale) ==
    IF segments \notin DOMAIN files \/ files[segments] = AbsentDir THEN NoneV
    ELSE
      LET d == Unwrap(files[segments])
          default_locale == d.lang
          available == EnumerateLocales(d)
          target_locale == IF IsSome(locale) THEN Unwrap(locale) ELSE default_locale
          file == LocaleFile(target_locale, default_locale)
      IN IF ~HasFile(d, file) THEN NoneV
         ELSE
           LET body == ContentOf(d, IF file = ArticleMd THEN default_locale ELSE file)
           IN Some([ root |-> root,
                     category |-> SubSeq(segments, 1, Len(segments) - 1),
                     slug |-> segments[Len(segments)],
                     locale |-> target_locale,
                     default_locale |-> default_locale,
                     title |-> TitleOf(body),
                     description |-> DescriptionOf(body),
                     metadata |-> MetadataOf(d),
                     content |-> body,
                     translations |->
                        [ i \in 1..Len(available) |->
                            [ locale |-> available[i],
                              title |-> TitleOf(ContentOf(d, available[i])) ] ],
                     touched |-> <<>> ])

\* Article::open
Open(root, files, segments) == OpenWithLocale(root, files, segments, NoneV)

\* ArticlePreview::is_default_locale
IsDefaultLocale(a) == a.locale = a.default_locale

\* ArticlePreview::output_path
OutputPath(a) ==
    JoinWith(a.category \o
             << IF IsDefaultLocale(a) THEN a.slug ELSE a.slug \o <<".">> \o a.locale >>,
             <<"/">>)

\* ArticlePreview::output_file
OutputFile(a) == OutputPath(a) \o <<".", "h", "t", "m", "l">>

\* Article::sha256: the digest of the JSON object built from these fields; the
\* digest is taken to be collision free, so it is the tuple of what is hashed
Sha256(a) ==
    << a.title, a.slug, CategoryDir(a.root, a.category), a.locale,
       << a.metadata.created, a.metadata.tags, a.metadata.author,
          a.metadata.description >>,
       a.description, a.content, a.translations >>

(***************************************************************************)
(* Guest modules.  A theme and a hook are opaque deterministic functions;  *)
(* their results are free terms that record who produced them from what.   *)
(***************************************************************************)
Themes == {"t1", "t2"}

HookNames == {"h1", "h2"}

\* hook.on_pre_render(article): the article as transformed by the hook
OnPreRender(h, a) == [a EXCEPT !.touched = Append(@, h)]

\* theme.generate_page(article)
GeneratePage(t, a) == [ theme |-> t, page_of |-> a, post |-> <<>> ]

\* hook.on_post_render(article, html)
OnPostRender(h, a, html) == [html EXCEPT !.post = Append(@, <<h, a.touched>>)]

\* the hook the loop `for hook in &self.hooks` visits in its i-th iteration
HookAtReversed(hs, i) == hs[Len(hs) + 1 - i]

HookAt(hs, i) == hs[i]

RECURSIVE ApplyPreRenderFrom(_, _, _)
\* PluginManager::apply_pre_render, from the i-th hook on
ApplyPreRenderFrom(hs, i, a) ==
    IF i > Len(hs) THEN a
    ELSE ApplyPreRenderFrom(hs, i + 1, OnPreRender(HookAt(hs, i), a))

ApplyPreRender(hs, a) == ApplyPreRenderFrom(hs, 1, a)

RECURSIVE ApplyPostRenderFrom(_, _, _, _)
\* PluginManager::apply_post_render, from the i-th hook on
ApplyPostRenderFrom(hs, i, a, html) ==
    IF i > Len(hs) THEN html
    ELSE ApplyPostRenderFrom(hs, i + 1, a, OnPostRender(HookAt(hs, i), a, html))

ApplyPostRender(hs, a, html) == ApplyPostRenderFrom(hs, 1, a, html)

\* PluginManager::render_article: pre-render hooks, theme, post-render hooks
RenderArticle(t, hs, a) ==
    LET a1 == ApplyPreRender(hs, a)
    IN ApplyPostRender(hs, a1, GeneratePage(t, a1))

\* PluginManager::theme_fingerprint: a digest of the files of the theme
ThemeFingerprint(t) == <<"fp", t>>

(***************************************************************************)
(* The render cache (src/src/cache.rs): a table from key to CachedArticle. *)
(***************************************************************************)
\* RenderCache::article_key
ArticleKey(a) == OutputPath(a)

\* CachedArticle::from_article
FromArticle(a, html, theme_fingerprint) ==
    [ sha256 |-> Sha256(a), title |-> a.title, description |-> a.description,
      metadata |-> a.metadata, html |-> html,
      theme_fingerprint |-> theme_fingerprint ]

\* the comparison of RenderCache::hit without the theme fingerprint
EntryMatchesNoTheme(cached, a, theme_fp) ==
    /\ cached.sha256 = Sha256(a)
    /\ cached.title = a.title
    /\ cached.description = a.description
    /\ cached.metadata = a.metadata

\* the comparison of RenderCache::hit
EntryMatches(cached, a, theme_fp) ==
    /\ cached.sha256 = Sha256(a)
    /\ cached.title = a.title
    /\ cached.description = a.description
    /\ cached.metadata = a.metadata
    /\ cached.theme_fingerprint = theme_fp

\* RenderCache::hit on a table whose read succeeds
Hit(table, a, theme_fp) ==
    LET key == ArticleKey(a)
    IN IF key \notin DOMAIN table THEN NoneV
       ELSE IF EntryMatches(table[key], a, theme_fp) THEN Some(table[key].html)
       ELSE NoneV

\* RenderCache::store: insert and commit
Store(table, a, html, theme_fp) ==
    LET key == ArticleKey(a)
        entry == FromArticle(a, html, theme_fp)
    IN [ k \in DOMAIN table \cup {key} |-> IF k = key THEN entry ELSE table[k] ]

\* the variables of the pipeline run, in the specifications that run none
PipeIdle ==
    /\ pArticle = NoneV
    /\ pc = "idle"
    /\ pIdx = 0
    /\ pCur = NoneV
    /\ pHtml = NoneV
    /\ pLog = <<>>

\* the variables of plugin resolution, in the specifications that resolve none
ResolveIdle ==
    /\ declared = <<>>
    /\ specs = <<>>
    /\ rIdx = 0
    /\ theme_slot = NoneV
    /\ rHooks = <<>>
    /\ rpc = "idle"

\* the variables of the engine, in the specifications that generate nothing
EngineIdle ==
    /\ map = << >>
    /\ articles_preview = <<>>
    /\ changed_articles = <<>>
    /\ render_task = <<>>
    /\ awaitIdx = 0
    /\ epc = "idle"
    /\ output = << >>

\* no fingerprint taken, in the specifications that record none
HashIdle == digests = {}

\* no call of ensure_index
IdleCall ==
    [ pc |-> "idle", fingerprint |-> NoneV, stored |-> NoneV, rebuilt |-> FALSE,
      result |-> "none" ]

\* the plugin directory does not exist
NoPluginDir == [ exists |-> FALSE, stamp |-> NoneV, source |-> NoneV, wasm |-> FALSE ]

\* no call of resolve_plugin made
NoResolveCall ==
    [ locator |-> NoneV, before |-> NoPluginDir, result |-> "none", reused |-> FALSE,
      removed |-> FALSE, fetched |-> FALSE, stamped |-> FALSE, built |-> FALSE,
      force_build |-> FALSE, build_ran |-> FALSE ]

PluginsIdle == plugin_dir = NoPluginDir /\ rCall = NoResolveCall

\* the locals of extract before the first event
NoExtraction ==
    [ title |-> NoneV, description |-> <<>>, in_title_heading |-> FALSE,
      in_description_paragraph |-> FALSE, description_found |-> FALSE ]

ExtractIdle == md = <<>> /\ events = <<>> /\ extraction = NoExtraction

\* no article directory probed
NoArticleDir == [ stems |-> {}, lang |-> NoneV ]

OpenIdle == article_dir = NoArticleDir /\ last_open = NoneV

NamingIdle ==
    on_disk = {} /\ resolved = NoneV /\ key_table = << >> /\ stored_variants = {}

\* no call of the cache recorded
NoCacheCall == [ op |-> "none", fault |-> "none", result |-> NoneV, before |-> <<>> ]

CacheCallIdle == cacheCall = NoCacheCall

\* no search payload built
WasmIdle == articles_in = <<>> /\ wasm = NoneV /\ parsed = NoneV

\* the variables of the searcher, in the specifications that search nothing
SearchIdle ==
    /\ search_index = <<>>
    /\ search_meta = NoneV
    /\ sCall = IdleCall
    /\ emissions = <<>>

\* the variables of the preview server, in the specifications that serve nothing
ServeIdle ==
    /\ requests = << >>
    /\ article_guards = << >>
    /\ mutexes = <<>>
    /\ index_dirty = FALSE
    /\ index_fingerprint = NoneV
    /\ search_ready = FALSE
    /\ index_lock = 0
    /\ search_lock = 0
    /\ index_due = FALSE

(***************************************************************************)
(* SpecCache: the render cache across edits of an article, changes of the  *)
(* plugin set (a restart of the server with another theme or other hooks;  *)
(* cache.redb stays on disk) and render requests (serve.rs render_article).*)
(***************************************************************************)
CacheRoot == <<"/", "a">>

CacheDir == <<CatC, SlugS>>

\* the hook lists a workspace of the cache runs can declare
CacheHookLists == { <<>>, <<"h1">> }

CacheFiles(doc, meta) ==
    [ d \in {CacheDir} |-> Some([ doc |-> doc, meta |-> meta, lang |-> En, extra |-> {Zh} ]) ]

\* the variants of the article a request can name
CacheRequests == { <<CacheDir, NoneV>>, <<CacheDir, Some(Zh)>> }

\* every article value a request can open now
LiveArticles ==
    { Unwrap(OpenWithLocale(CacheRoot, fs, r[1], r[2])) :
        r \in { q \in CacheRequests : IsSome(OpenWithLocale(CacheRoot, fs, q[1], q[2])) } }

InitCache ==
    /\ fs = CacheFiles(0, 0)
    /\ theme = "t1"
    /\ hooks = <<>>
    /\ cache = << >>
    /\ lastStore = << >>
    /\ PipeIdle
    /\ ResolveIdle
    /\ EngineIdle
    /\ ServeIdle
    /\ HashIdle
    /\ SearchIdle
    /\ WasmIdle
    /\ CacheCallIdle
    /\ PluginsIdle
    /\ ExtractIdle
    /\ OpenIdle
    /\ NamingIdle

\* the author edits the markdown of the article
EditBody(doc) ==
    /\ doc /= Unwrap(fs[CacheDir]).doc
    /\ fs' = CacheFiles(doc, Unwrap(fs[CacheDir]).meta)
    /\ UNCHANGED <<theme, hooks, cache, lastStore, pipeVars, resolveVars, engineVars, serveVars, hashVars, searchVars, wasmVars, cacheIoVars, pluginVars, extractVars, openVars, namingVars>>

\* the author edits Article.toml
EditMeta(meta) ==
    /\ meta /= Unwrap(fs[CacheDir]).meta
    /\ fs' = CacheFiles(Unwrap(fs[CacheDir]).doc, meta)
    /\ UNCHANGED <<theme, hooks, cache, lastStore, pipeVars, resolveVars, engineVars, serveVars, hashVars, searchVars, wasmVars, cacheIoVars, pluginVars, extractVars, openVars, namingVars>>

\* the workspace is served again with another theme
ChangeTheme(t) ==
    /\ t /= theme
    /\ theme' = t
    /\ UNCHANGED <<fs, hooks, cache, lastStore, pipeVars, resolveVars, engineVars, serveVars, hashVars, searchVars, wasmVars, cacheIoVars, pluginVars, extractVars, openVars, namingVars>>

\* the workspace is served again with another hook list
ChangeHooks(hs) ==
    /\ hs /= hooks
    /\ hooks' = hs
    /\ UNCHANGED <<fs, theme, cache, lastStore, pipeVars, resolveVars, engineVars, serveVars, hashVars, searchVars, wasmVars, cacheIoVars, pluginVars, extractVars, openVars, namingVars>>

\* ServeState::render_article: the cached html on a hit; on a miss (also a
\* failed read, which hit answers with None) the pipeline and a store
RenderRequest(r, readOk) ==
    LET opened == OpenWithLocale(CacheRoot, fs, r[1], r[2])
        a == Unwrap(opened)
        fp == ThemeFingerprint(theme)
        found == IF readOk THEN Hit(cache, a, fp) ELSE NoneV
        rendered == RenderArticle(theme, hooks, a)
    IN /\ IsSome(opened)
       /\ IF IsSome(found)
          THEN UNCHANGED <<cache, lastStore>>
          ELSE /\ cache' = Store(cache, a, rendered, fp)
               /\ lastStore' =
                    [ k \in DOMAIN lastStore \cup {ArticleKey(a)} |->
                        IF k = ArticleKey(a)
                        THEN [ article |-> a, html |-> rendered, theme_fingerprint |-> fp ]
                        ELSE lastStore[k] ]
       /\ UNCHANGED <<fs, theme, hooks, pipeVars, resolveVars, engineVars, serveVars, hashVars, searchVars, wasmVars, cacheIoVars, pluginVars, extractVars, openVars, namingVars>>

NextCache ==
    \/ \E doc \in Docs : EditBody(doc)
    \/ \E meta \in Metas : EditMeta(meta)
    \/ \E t \in Themes : ChangeTheme(t)
    \/ \E hs \in CacheHookLists : ChangeHooks(hs)
    \/ \E r \in CacheRequests, readOk \in BOOLEAN : RenderRequest(r, readOk)

SpecCache == InitCache /\ [][NextCache]_vars

\* C1: cache soundness: whenever hit(A, fp) of the current theme fingerprint
\* answers Some(html) for an article A as it is on disk now, html is what the
\* current theme and the current hooks render for A.
C1_CacheSound ==
    \A a \in LiveArticles :
        LET found == Hit(cache, a, ThemeFingerprint(theme))
        IN IsSome(found) => Unwrap(found) = RenderArticle(theme, hooks, a)

\* C2: hit(A, fp) answers Some(html) only if an entry was stored under A's
\* key whose article agrees with A on sha256, title, description and metadata
\* and whose theme fingerprint is fp, and then html is the html of the last
\* store under that key; an entry stored under another fingerprint is a miss.
C2_HitOnlyOnFullMatch ==
    \A a \in LiveArticles : \A t \in Themes :
        LET fp == ThemeFingerprint(t)
            found == Hit(cache, a, fp)
            key == ArticleKey(a)
        IN /\ IsSome(found) =>
                /\ key \in DOMAIN lastStore
                /\ Sha256(lastStore[key].article) = Sha256(a)
                /\ lastStore[key].article.title = a.title
                /\ lastStore[key].article.description = a.description
                /\ lastStore[key].article.metadata = a.metadata
                /\ lastStore[key].theme_fingerprint = fp
                /\ Unwrap(found) = lastStore[key].html
           /\ (key \in DOMAIN lastStore /\ lastStore[key].theme_fingerprint /= fp)
                => found = NoneV

\* C2 witness: an entry stored under theme t1 is looked up under the
\* fingerprint of t2 (a miss) and under its own (a hit)
C2_Witness ==
    \E a \in LiveArticles :
        /\ ArticleKey(a) \in DOMAIN lastStore
        /\ IsSome(Hit(cache, a, ThemeFingerprint("t1")))
        /\ Hit(cache, a, ThemeFingerprint("t2")) = NoneV
        /\ theme = "t2"

(***************************************************************************)
(* SpecPipeline: one article through the hook chain and the theme.  Every  *)
(* guest call is a step (the runtime of a hook is locked with an await     *)
(* before each call) and may fail; `?` then ends the render.               *)
(***************************************************************************)
\* the hook lists of a plugin manager: every order of every subset
PipelineHookLists == UNION { Orderings(S) : S \in SUBSET HookNames }

PipelineArticles ==
    { Unwrap(OpenWithLocale(CacheRoot, CacheFiles(0, 0), r[1], r[2])) : r \in CacheRequests }

\* a guest call as the host makes it
GuestCall(call, by, arg, html) == [ call |-> call, by |-> by, arg |-> arg, html |-> html ]

InitPipeline ==
    /\ fs = CacheFiles(0, 0)
    /\ theme \in Themes
    /\ hooks \in PipelineHookLists
    /\ cache = << >>
    /\ lastStore = << >>
    /\ pArticle \in { Some(a) : a \in PipelineArticles }
    /\ pc = "pre"
    /\ pIdx = 1
    /\ pCur = pArticle
    /\ pHtml = NoneV
    /\ pLog = <<>>
    /\ ResolveIdle
    /\ EngineIdle
    /\ ServeIdle
    /\ HashIdle
    /\ SearchIdle
    /\ WasmIdle
    /\ CacheCallIdle
    /\ PluginsIdle
    /\ ExtractIdle
    /\ OpenIdle
    /\ NamingIdle

\* one iteration of the loop of apply_pre_render
PreRenderStep(ok) ==
    /\ pc = "pre"
    /\ pIdx <= Len(hooks)
    /\ LET h == HookAt(hooks, pIdx)
       IN /\ pLog' = Append(pLog, GuestCall("on_pre_render", h, Unwrap(pCur), NoneV))
          /\ IF ok
             THEN /\ pCur' = Some(OnPreRender(h, Unwrap(pCur)))
                  /\ pIdx' = pIdx + 1
                  /\ pc' = pc
             ELSE /\ pc' = "failed"
                  /\ UNCHANGED <<pCur, pIdx>>
    /\ UNCHANGED <<pArticle, pHtml, cacheVars, resolveVars, engineVars, serveVars, hashVars, searchVars, wasmVars, cacheIoVars, pluginVars, extractVars, openVars, namingVars>>

\* apply_pre_render returns; the theme renders the article it returned
ThemeStep(ok) ==
    /\ pc = "pre"
    /\ pIdx > Len(hooks)
    /\ pLog' = Append(pLog, GuestCall("generate_page", theme, Unwrap(pCur), NoneV))
    /\ IF ok
       THEN /\ pHtml' = Some(GeneratePage(theme, Unwrap(pCur)))
            /\ pc' = "post"
            /\ pIdx' = 1
       ELSE /\ pc' = "failed"
            /\ UNCHANGED <<pHtml, pIdx>>
    /\ UNCHANGED <<pArticle, pCur, cacheVars, resolveVars, engineVars, serveVars, hashVars, searchVars, wasmVars, cacheIoVars, pluginVars, extractVars, openVars, namingVars>>

\* one iteration of the loop of apply_post_render
PostRenderStep(ok) ==
    /\ pc = "post"
    /\ pIdx <= Len(hooks)
    /\ LET h == HookAt(hooks, pIdx)
       IN /\ pLog' = Append(pLog, GuestCall("on_post_render", h, Unwrap(pCur), pHtml))
          /\ IF ok
             THEN /\ pHtml' = Some(OnPostRender(h, Unwrap(pCur), Unwrap(pHtml)))
                  /\ pIdx' = pIdx + 1
                  /\ pc' = pc
             ELSE /\ pc' = "failed"
                  /\ UNCHANGED <<pHtml, pIdx>>
    /\ UNCHANGED <<pArticle, pCur, cacheVars, resolveVars, engineVars, serveVars, hashVars, searchVars, wasmVars, cacheIoVars, pluginVars, extractVars, openVars, namingVars>>

\* apply_post_render returns: the html is emitted
EmitHtml ==
    /\ pc = "post"
    /\ pIdx > Len(hooks)
    /\ pc' = "done"
    /\ UNCHANGED <<pArticle, pIdx, pCur, pHtml, pLog, cacheVars, resolveVars, engineVars, serveVars, hashVars, searchVars, wasmVars, cacheIoVars, pluginVars, extractVars, openVars, namingVars>>

NextPipeline ==
    \/ \E ok \in BOOLEAN : PreRenderStep(ok)
    \/ \E ok \in BOOLEAN : ThemeStep(ok)
    \/ \E ok \in BOOLEAN : PostRenderStep(ok)
    \/ EmitHtml

SpecPipeline == InitPipeline /\ [][NextPipeline]_vars

RECURSIVE AfterPre(_)
\* the article after the first k hooks of the declared list transformed it
AfterPre(k) ==
    IF k = 0 THEN Unwrap(pArticle) ELSE OnPreRender(hooks[k], AfterPre(k - 1))

RECURSIVE HtmlAfterPost(_)
\* the html after the theme and the first k hooks of the declared list
HtmlAfterPost(k) ==
    IF k = 0 THEN GeneratePage(theme, AfterPre(Len(hooks)))
    ELSE OnPostRender(hooks[k], AfterPre(Len(hooks)), HtmlAfterPost(k - 1))

\* the i-th guest call of a render of pArticle, as the pipeline order has it
ExpectedCall(i) ==
    LET n == Len(hooks)
    IN IF i <= n THEN GuestCall("on_pre_render", hooks[i], AfterPre(i - 1), NoneV)
       ELSE IF i = n + 1 THEN GuestCall("generate_page", theme, AfterPre(n), NoneV)
       ELSE GuestCall("on_post_render", hooks[i - n - 1], AfterPre(n),
                      Some(HtmlAfterPost(i - n - 2)))

\* C3: pipeline order: on_pre_render of h1..hn in order, each on the article
\* the previous one returned; then generate_page once on the result A'; then
\* on_post_render of h1..hn in order, each on A' and the html of the step
\* before; the emitted html is the result of the last step.
C3_PipelineOrder ==
    /\ \A i \in 1..Len(pLog) : i <= 2 * Len(hooks) + 1 /\ pLog[i] = ExpectedCall(i)
    /\ pc = "done" =>
          /\ Len(pLog) = 2 * Len(hooks) + 1
          /\ pHtml = Some(HtmlAfterPost(Len(hooks)))

\* C3 witness: a render through two hooks has emitted its html
C3_Witness == pc = "done" /\ Len(hooks) = 2 /\ Len(pLog) = 5

(***************************************************************************)
(* SpecResolve: PluginLoader::resolve over the plugins of the manifest.    *)
(* The manifest keeps them in PluginRegistry, a HashMap from name to       *)
(* locator: its iterator hands the entries out in an order that the table  *)
(* decides (hash and seed), which is any order of the keys.                *)
(***************************************************************************)
PluginNames == HookNames \cup Themes

\* PluginManifest::kind of the resolved plugin (Plugin.toml of its directory)
KindOf(name) == IF name \in Themes THEN "theme" ELSE "hook"

\* what Thought.toml can declare: distinct table keys, in the order written
Manifests == UNION { Orderings(S) : S \in SUBSET PluginNames }

\* PluginRegistry::plugins: the orders in which a HashMap can yield its keys
RegistryOrders(decl) == { o \in Orderings(SeqToSet(decl)) : Len(o) = Len(decl) }

RECURSIVE SelectHooks(_)
\* the hooks of a plugin list, in the order of the list
SelectHooks(list) ==
    IF Len(list) = 0 THEN <<>>
    ELSE (IF KindOf(Head(list)) = "hook" THEN <<Head(list)>> ELSE <<>>)
         \o SelectHooks(Tail(list))

InitResolve ==
    /\ fs = CacheFiles(0, 0)
    /\ theme = "t1"
    /\ hooks = <<>>
    /\ cache = << >>
    /\ lastStore = << >>
    /\ PipeIdle
    /\ EngineIdle
    /\ ServeIdle
    /\ HashIdle
    /\ SearchIdle
    /\ declared \in Manifests
    /\ specs = <<>>
    /\ rIdx = 0
    /\ theme_slot = NoneV
    /\ rHooks = <<>>
    /\ rpc = "start"
    /\ WasmIdle
    /\ CacheCallIdle
    /\ PluginsIdle
    /\ ExtractIdle
    /\ OpenIdle
    /\ NamingIdle

\* the plugins of the manifest are collected from the registry
CollectSpecs ==
    /\ rpc = "start"
    /\ specs' \in RegistryOrders(declared)
    /\ rIdx' = 1
    /\ rpc' = "loop"
    /\ UNCHANGED <<declared, theme_slot, rHooks, cacheVars, pipeVars, engineVars, serveVars, hashVars, searchVars, wasmVars, cacheIoVars, pluginVars, extractVars, openVars, namingVars>>

\* a theme is put in the slot whatever the slot holds
SlotNeverTaken(slot) == FALSE

\* `if let Some((_, manifest, _)) = &theme_slot`
SlotTaken(slot) == IsSome(slot)

\* one iteration of `for spec in specs`: resolve_single, then the theme slot
\* or the hook list
ResolveOne(ok) ==
    /\ rpc = "loop"
    /\ rIdx <= Len(specs)
    /\ LET name == specs[rIdx]
       IN IF ~ok
          THEN /\ rpc' = "resolve_error"
               /\ UNCHANGED <<rIdx, theme_slot, rHooks>>
          ELSE IF KindOf(name) = "theme"
          THEN IF SlotTaken(theme_slot)
               THEN /\ rpc' = "ThemeAlreadyLoaded"
                    /\ UNCHANGED <<rIdx, theme_slot, rHooks>>
               ELSE /\ theme_slot' = Some(name)
                    /\ rIdx' = rIdx + 1
                    /\ UNCHANGED <<rpc, rHooks>>
          ELSE /\ rHooks' = Append(rHooks, name)
               /\ rIdx' = rIdx + 1
               /\ UNCHANGED <<rpc, theme_slot>>
    /\ UNCHANGED <<declared, specs, cacheVars, pipeVars, engineVars, serveVars, hashVars, searchVars, wasmVars, cacheIoVars, pluginVars, extractVars, openVars, namingVars>>

\* after the loop: ThemeMissing, or the plugin manager with theme and hooks
FinishResolve ==
    /\ rpc = "loop"
    /\ rIdx > Len(specs)
    /\ IF IsSome(theme_slot)
       THEN /\ rpc' = "ok"
            /\ theme' = Unwrap(theme_slot)
            /\ hooks' = rHooks
       ELSE /\ rpc' = "ThemeMissing"
            /\ UNCHANGED <<theme, hooks>>
    /\ UNCHANGED <<declared, specs, rIdx, theme_slot, rHooks, fs, cache, lastStore, pipeVars, engineVars, serveVars, hashVars, searchVars, wasmVars, cacheIoVars, pluginVars, extractVars, openVars, namingVars>>

NextResolve ==
    \/ CollectSpecs
    \/ \E ok \in BOOLEAN : ResolveOne(ok)
    \/ FinishResolve

SpecResolve == InitResolve /\ [][NextResolve]_vars

\* C4: the hooks of the plugin manager, in the order in which the pipeline
\* applies them, are the hooks of the manifest in the order of their
\* declaration (so that two runs over one manifest agree).
C4_DeclarationOrder == rpc = "ok" => hooks = SelectHooks(declared)

\* the themes among the first n plugins of a list
ThemesAmong(list, n) == { i \in 1..n : KindOf(list[i]) = "theme" }

\* C18: resolution ends Ok only when exactly one declared plugin is a theme,
\* and then that plugin is the theme and every other declared plugin is a
\* hook of the manager; it ends ThemeMissing when no resolved plugin is a
\* theme; it ends ThemeAlreadyLoaded at the second theme, which is not put
\* in the slot; and every plugin resolved so far that is not a theme has
\* been loaded as a hook.
C18_ExactlyOneTheme ==
    /\ rpc = "ok" =>
         /\ Cardinality(ThemesAmong(declared, Len(declared))) = 1
         /\ \A i \in 1..Len(declared) :
               IF KindOf(declared[i]) = "theme" THEN theme = declared[i]
               ELSE declared[i] \in SeqToSet(hooks)
         /\ \A i \in 1..Len(hooks) : KindOf(hooks[i]) = "hook"
    /\ rpc = "ThemeMissing" => ThemesAmong(specs, Len(specs)) = {}
    /\ rpc = "ThemeAlreadyLoaded" =>
         /\ Cardinality(ThemesAmong(specs, rIdx)) = 2
         /\ KindOf(specs[rIdx]) = "theme"
         /\ theme_slot /= Some(specs[rIdx])
         /\ specs[rIdx] \notin SeqToSet(rHooks)
    /\ rpc \in {"loop", "ThemeAlreadyLoaded", "ThemeMissing", "resolve_error"} =>
         \A i \in 1..Len(specs) :
             (i < rIdx /\ KindOf(specs[i]) = "hook") => specs[i] \in SeqToSet(rHooks)

\* a second theme has been refused after a hook and the first theme were
\* loaded
C18_Witness ==
    /\ rpc = "ThemeAlreadyLoaded"
    /\ Len(rHooks) >= 1
    /\ IsSome(theme_slot)

(***************************************************************************)
(* The traversal of the content directory (workspace.rs walk_articles).    *)
(***************************************************************************)
\* ArticlePreview: the article without its body
Preview(a) == [ f \in DOMAIN a \ {"content", "touched"} |-> a[f] ]

RECURSIVE VariantsFrom(_, _, _, _, _)
\* `for locale in locales`: the variants of the other locales, in list order
VariantsFrom(root, files, segments, locales, own) ==
    IF Len(locales) = 0 THEN <<>>
    ELSE (IF Head(locales) = own THEN <<>>
          ELSE LET v == OpenWithLocale(root, files, segments, Some(Head(locales)))
               IN IF IsSome(v) THEN <<Unwrap(v)>> ELSE <<>>)
         \o VariantsFrom(root, files, segments, Tail(locales), own)

\* what walk_articles sends for one article directory: the primary variant,
\* then one variant per translation of another locale
VariantsOf(root, files, segments) ==
    LET primary == Open(root, files, segments)
    IN IF ~IsSome(primary) THEN <<>>
       ELSE LET article == Unwrap(primary)
                locales == [ i \in 1..Len(article.translations) |->
                               article.translations[i].locale ]
            IN <<article>> \o VariantsFrom(root, files, segments, locales, article.locale)

RECURSIVE WalkFrom(_, _, _)
WalkFrom(root, files, dirs) ==
    IF Len(dirs) = 0 THEN <<>>
    ELSE (IF Head(dirs) \in DOMAIN files
          THEN VariantsOf(root, files, Head(dirs)) ELSE <<>>)
         \o WalkFrom(root, files, Tail(dirs))

\* the order in which the traversal meets the article directories: those of
\* the content root while it scans the root, those of category c after it
WalkDirs == << <<SlugS>>, <<CatC, SlugS>>, <<CatC, SlugT>> >>

\* every item of the stream Workspace::articles returns
WalkArticles(root, files) == WalkFrom(root, files, WalkDirs)

\* theme.generate_index(previews)
GenerateIndex(t, previews) == [ theme |-> t, index_of |-> previews ]

\* PluginManager::render_index
RenderIndex(t, previews) == GenerateIndex(t, previews)

(***************************************************************************)
(* SpecEngine: one Engine::generate (src/src/engine.rs), with the content  *)
(* directory open to its owner while generate runs.                        *)
(***************************************************************************)
\* iterations of the collection loop that a run is followed for
MaxCollect == 2

EngineRoot == <<"/", "a">>

\* two articles of one slug: s in the content root and s in category c
EngineDirs == { <<SlugS>>, <<CatC, SlugS>> }

EngineDirState(d) ==
    [ doc |-> 0, meta |-> 0, lang |-> En,
      extra |-> IF Len(d) = 1 THEN {Zh} ELSE {} ]

\* the content directories a run can start from
EngineContents ==
    { [ d \in EngineDirs |-> IF d \in S THEN Some(EngineDirState(d)) ELSE AbsentDir ] :
        S \in SUBSET EngineDirs }

\* .meta.json of the output directory: absent, or left there with the
\* fingerprint of the article of the content root
EngineMaps ==
    { << >>,
      [ p \in { <<SlugS>> } |->
          Sha256(Unwrap(Open(EngineRoot,
                             [ d \in EngineDirs |-> Some(EngineDirState(d)) ], p))) ] }

IndexHtml == <<"i", "n", "d", "e", "x", ".", "h", "t", "m", "l">>

\* format!("{}.html", article.slug())
SlugHtml(a) == a.slug \o <<".", "h", "t", "m", "l">>

IndexTask(previews) ==
    [ kind |-> "index", article |-> NoneV, previews |-> previews,
      path |-> IndexHtml, state |-> "spawned", content |-> NoneV ]

ArticleTask(a, previews) ==
    [ kind |-> "article", article |-> Some(a), previews |-> previews,
      path |-> SlugHtml(a), state |-> "spawned", content |-> NoneV ]

\* fs::write(path, content) on the output directory
WriteFile(dir, path, content) ==
    [ q \in DOMAIN dir \cup {path} |-> IF q = path THEN content ELSE dir[q] ]

InitEngine ==
    /\ fs \in EngineContents
    /\ theme = "t1"
    /\ hooks = <<"h1">>
    /\ cache = << >>
    /\ lastStore = << >>
    /\ PipeIdle
    /\ ResolveIdle
    /\ map \in EngineMaps
    /\ articles_preview = <<>>
    /\ changed_articles = <<>>
    /\ render_task = <<>>
    /\ awaitIdx = 0
    /\ epc = "collect"
    /\ output = << >>
    /\ ServeIdle
    /\ HashIdle
    /\ SearchIdle
    /\ WasmIdle
    /\ CacheCallIdle
    /\ PluginsIdle
    /\ ExtractIdle
    /\ OpenIdle
    /\ NamingIdle

\* the owner removes an article directory while the collection runs
RemoveArticleDir(d) ==
    /\ epc = "collect"
    /\ fs[d] # AbsentDir
    /\ fs' = [fs EXCEPT ![d] = AbsentDir]
    /\ UNCHANGED <<theme, hooks, cache, lastStore, pipeVars, resolveVars, engineVars, serveVars, hashVars, searchVars, wasmVars, cacheIoVars, pluginVars, extractVars, openVars, namingVars>>

\* one iteration of `while let Some(article) = workspace.articles().next()`:
\* a new stream is made and its first item taken
CollectArticle ==
    /\ epc = "collect"
    /\ Len(articles_preview) < MaxCollect
    /\ LET items == WalkArticles(EngineRoot, fs)
       IN /\ Len(items) > 0
          /\ LET article == Head(items)
                 sha256 == Sha256(article)
                 path == article.category \o <<article.slug>>
             IN /\ articles_preview' = Append(articles_preview, Preview(article))
                /\ changed_articles' =
                      IF path \in DOMAIN map /\ map[path] = sha256
                      THEN changed_articles
                      ELSE Append(changed_articles, article)
    /\ UNCHANGED <<map, render_task, awaitIdx, epc, output, cacheVars, pipeVars, resolveVars, serveVars, hashVars, searchVars, wasmVars, cacheIoVars, pluginVars, extractVars, openVars, namingVars>>

\* the stream yields None: the loop ends and the index task is spawned
SpawnIndex ==
    /\ epc = "collect"
    /\ Len(WalkArticles(EngineRoot, fs)) = 0
    /\ render_task' = <<IndexTask(articles_preview)>>
    /\ epc' = "spawn"
    /\ UNCHANGED <<map, articles_preview, changed_articles, awaitIdx, output,
                   cacheVars, pipeVars, resolveVars, serveVars, hashVars, searchVars, wasmVars, cacheIoVars, pluginVars, extractVars, openVars, namingVars>>

\* one iteration of `for article in changed_articles`
SpawnArticle ==
    /\ epc = "spawn"
    /\ Len(render_task) - 1 < Len(changed_articles)
    /\ render_task' =
          Append(render_task, ArticleTask(changed_articles[Len(render_task)], articles_preview))
    /\ UNCHANGED <<map, articles_preview, changed_articles, awaitIdx, epc, output,
                   cacheVars, pipeVars, resolveVars, serveVars, hashVars, searchVars, wasmVars, cacheIoVars, pluginVars, extractVars, openVars, namingVars>>

\* generate reaches `for task in render_task`
BeginAwait ==
    /\ epc = "spawn"
    /\ Len(render_task) - 1 = Len(changed_articles)
    /\ epc' = "await"
    /\ awaitIdx' = 1
    /\ UNCHANGED <<map, articles_preview, changed_articles, render_task, output,
                   cacheVars, pipeVars, resolveVars, serveVars, hashVars, searchVars, wasmVars, cacheIoVars, pluginVars, extractVars, openVars, namingVars>>

\* a task runs the plugins: render_index or render_article up to the write
TaskRender(i, ok) ==
    /\ i \in 1..Len(render_task)
    /\ render_task[i].state = "spawned"
    /\ LET task == render_task[i]
           content == IF task.kind = "index"
                      THEN RenderIndex(theme, task.previews)
                      ELSE RenderArticle(theme, hooks, Unwrap(task.article))
       IN render_task' =
            IF ok THEN [render_task EXCEPT ![i].state = "rendered",
                                           ![i].content = Some(content)]
            ELSE [render_task EXCEPT ![i].state = "failed"]
    /\ UNCHANGED <<map, articles_preview, changed_articles, awaitIdx, epc, output,
                   cacheVars, pipeVars, resolveVars, serveVars, hashVars, searchVars, wasmVars, cacheIoVars, pluginVars, extractVars, openVars, namingVars>>

\* a task writes its file and completes
TaskWrite(i, ok) ==
    /\ i \in 1..Len(render_task)
    /\ render_task[i].state = "rendered"
    /\ IF ok
       THEN /\ output' = WriteFile(output, render_task[i].path, Unwrap(render_task[i].content))
            /\ render_task' = [render_task EXCEPT ![i].state = "done"]
       ELSE /\ render_task' = [render_task EXCEPT ![i].state = "failed"]
            /\ UNCHANGED output
    /\ UNCHANGED <<map, articles_preview, changed_articles, awaitIdx, epc,
                   cacheVars, pipeVars, resolveVars, serveVars, hashVars, searchVars, wasmVars, cacheIoVars, pluginVars, extractVars, openVars, namingVars>>

\* `task.await?` on a finished task: the next task, or the error returned and
\* the tasks not yet awaited dropped with the vector (a dropped Task is
\* cancelled)
AwaitTask ==
    /\ epc = "await"
    /\ awaitIdx <= Len(render_task)
    /\ render_task[awaitIdx].state \in {"done", "failed"}
    /\ IF render_task[awaitIdx].state = "done"
       THEN /\ awaitIdx' = awaitIdx + 1
            /\ UNCHANGED <<epc, render_task>>
       ELSE /\ epc' = "error"
            /\ render_task' =
                 [ j \in 1..Len(render_task) |->
                     IF j > awaitIdx /\ render_task[j].state \in {"spawned", "rendered"}
                     THEN [render_task[j] EXCEPT !.state = "cancelled"]
                     ELSE render_task[j] ]
            /\ UNCHANGED awaitIdx
    /\ UNCHANGED <<map, articles_preview, changed_articles, output,
                   cacheVars, pipeVars, resolveVars, serveVars, hashVars, searchVars, wasmVars, cacheIoVars, pluginVars, extractVars, openVars, namingVars>>

\* every task awaited: Ok(())
FinishGenerate ==
    /\ epc = "await"
    /\ awaitIdx > Len(render_task)
    /\ epc' = "done"
    /\ UNCHANGED <<map, articles_preview, changed_articles, render_task, awaitIdx, output,
                   cacheVars, pipeVars, resolveVars, serveVars, hashVars, searchVars, wasmVars, cacheIoVars, pluginVars, extractVars, openVars, namingVars>>

NextEngine ==
    \/ \E d \in EngineDirs : RemoveArticleDir(d)
    \/ CollectArticle
    \/ SpawnIndex
    \/ SpawnArticle
    \/ BeginAwait
    \/ \E i \in 1..(MaxCollect + 1), ok \in BOOLEAN : TaskRender(i, ok)
    \/ \E i \in 1..(MaxCollect + 1), ok \in BOOLEAN : TaskWrite(i, ok)
    \/ AwaitTask
    \/ FinishGenerate

SpecEngine == InitEngine /\ [][NextEngine]_vars

RECURSIVE WritesInOrder(_, _, _)
\* the output directory after the tasks from the i-th on wrote one after another
WritesInOrder(tasks, i, dir) ==
    IF i > Len(tasks) THEN dir
    ELSE WritesInOrder(tasks, i + 1,
                       WriteFile(dir, tasks[i].path, Unwrap(tasks[i].content)))

\* C5: the render tasks of one run leave the same files with the same bytes
\* in every order in which they can run: when generate has returned Ok, the
\* output directory is the one that the tasks leave when they run one after
\* another in the order of their spawning.
C5_OrderIndependent ==
    epc = "done" => output = WritesInOrder(render_task, 1, << >>)

\* C6: the index task depends on the article tasks: theme generate_index has
\* not been invoked and index.html has not been written while an article
\* task of the run is still to be spawned, pending or running.
C6_IndexAfterArticles ==
    \A i \in 1..Len(render_task) :
        (render_task[i].kind = "index" /\ render_task[i].state \in {"rendered", "done"})
        => /\ Len(render_task) - 1 = Len(changed_articles)
           /\ \A j \in 1..Len(render_task) :
                 render_task[j].kind = "article"
                 => render_task[j].state \in {"done", "failed", "cancelled"}

\* the article directory a preview belongs to
PreviewDir(p) == p.category \o <<p.slug>>

\* C8: the previews passed to generate_index are the default-locale variants
\* of the articles of the content directory: one for every article directory
\* that the traversal reaches, no directory twice, no variant of another
\* locale.
C8_IndexCoverage ==
    \A i \in 1..Len(render_task) :
        render_task[i].kind = "index"
        => LET ps == render_task[i].previews
           IN /\ \A k \in 1..Len(ps) : IsDefaultLocale(ps[k])
              /\ \A k, l \in 1..Len(ps) : PreviewDir(ps[k]) = PreviewDir(ps[l]) => k = l
              /\ \A d \in EngineDirs :
                    fs[d] # AbsentDir => \E k \in 1..Len(ps) : PreviewDir(ps[k]) = d

\* C17: when a task of a generate has failed and generate has reported the
\* error, the other render tasks of the run are not cancelled: each runs on
\* to its completion or to its own failure.
C17_TasksContinue ==
    \A i \in 1..Len(render_task) : render_task[i].state /= "cancelled"

\* C30: the collection loop of generate consumes each article of the
\* traversal exactly once, so that it ends when the traversal is exhausted:
\* no article is collected a second time.
C30_EachArticleOnce ==
    \A i, j \in 1..Len(articles_preview) :
        i /= j => articles_preview[i] /= articles_preview[j]

(***************************************************************************)
(* Request paths of the preview server (src/src/serve.rs).                 *)
(***************************************************************************)
\* position of the first ch in s, 0 when there is none
FirstIndex(s, ch) ==
    IF \E i \in 1..Len(s) : s[i] = ch
    THEN CHOOSE i \in 1..Len(s) : s[i] = ch /\ \A j \in 1..(i - 1) : s[j] # ch
    ELSE 0

\* position of the last ch in s, 0 when there is none
LastIndex(s, ch) ==
    IF \E i \in 1..Len(s) : s[i] = ch
    THEN CHOOSE i \in 1..Len(s) : s[i] = ch /\ \A j \in (i + 1)..Len(s) : s[j] # ch
    ELSE 0

RECURSIVE SplitOn(_, _)
\* the pieces of s between the occurrences of ch
SplitOn(s, ch) ==
    LET i == FirstIndex(s, ch)
    IN IF i = 0 THEN <<s>>
       ELSE <<SubSeq(s, 1, i - 1)>> \o SplitOn(SubSeq(s, i + 1, Len(s)), ch)

Dot == <<".">>

DotDot == <<".", ".">>

Html == <<"h", "t", "m", "l">>

RECURSIVE NormalComponents(_)
\* the Component::Normal items of Path::components; CurDir, RootDir and the
\* empty pieces between slashes are not among them
NormalComponents(pieces) ==
    IF Len(pieces) = 0 THEN <<>>
    ELSE (IF Head(pieces) = <<>> \/ Head(pieces) = Dot THEN <<>> ELSE <<Head(pieces)>>)
         \o NormalComponents(Tail(pieces))

\* sanitize_relative_path that takes a ParentDir component as a name
SanitizeKeepParentDir(raw) == Some(NormalComponents(SplitOn(raw, "/")))

\* sanitize_relative_path: None on a ParentDir component
SanitizeRelativePath(raw) ==
    LET pieces == SplitOn(raw, "/")
    IN IF \E i \in 1..Len(pieces) : pieces[i] = DotDot THEN NoneV
       ELSE Some(NormalComponents(pieces))

\* Path::extension of a file name
Extension(name) ==
    LET i == LastIndex(name, ".")
    IN IF i <= 1 THEN NoneV ELSE Some(SubSeq(name, i + 1, Len(name)))

\* Path::set_extension("") on a file name
StripExtension(name) ==
    LET i == LastIndex(name, ".")
    IN IF i <= 1 THEN name ELSE SubSeq(name, 1, i - 1)

\* Path::with_extension("html") on a path without extension
WithExtensionHtml(path) ==
    [path EXCEPT ![Len(path)] = @ \o Dot \o Html]

\* path_segments: the components of the path without its extension
PathSegments(relative) ==
    IF Len(relative) = 0 THEN NoneV
    ELSE Some([relative EXCEPT ![Len(relative)] = StripExtension(@)])

\* split_locale_from_segments: <<segments, locale>>
SplitLocaleFromSegments(segments) ==
    IF Len(segments) = 0 THEN NoneV
    ELSE LET last == segments[Len(segments)]
             i == FirstIndex(last, ".")
         IN IF i > 1 /\ i < Len(last)
            THEN Some(<< [segments EXCEPT ![Len(segments)] = SubSeq(last, 1, i - 1)],
                         Some(SubSeq(last, i + 1, Len(last))) >>)
            ELSE Some(<<segments, NoneV>>)

\* build_dir.join(path): the name of a file below the build directory
BuildPath(path) == JoinWith(path, <<"/">>)

\* the key of article_guard
GuardKey(segments) == JoinWith(segments, <<"/">>)

\* entry(key).or_insert_with(new mutex): the mutex of the key, `fresh` when
\* the table has none
GuardOfFresh(guards, key, fresh) == fresh

GuardOf(guards, key, fresh) ==
    IF key \in DOMAIN guards THEN guards[key] ELSE fresh

(***************************************************************************)
(* SpecServe: the preview server answering concurrent requests for article *)
(* pages (serve_path, render_article_for).  Every await of a handler is a  *)
(* point at which the other requests can run.                              *)
(***************************************************************************)
\* number of requests in flight at one time
MaxReq == 2

Reqs == 1..MaxReq

ServeRoot == <<"/", "a">>

\* the content served: c/s in en (default) and zh, c/t in en
ServeFiles ==
    [ d \in { <<CatC, SlugS>>, <<CatC, SlugT>> } |->
        Some([ doc |-> 0, meta |-> 0, lang |-> En,
               extra |-> IF d = <<CatC, SlugS>> THEN {Zh} ELSE {} ]) ]

\* the request paths: c/s.html, c/s.zh.html, c/s.en.html, c/t.html
ServePaths ==
    { JoinWith(<<CatC, SlugS \o Dot \o Html>>, <<"/">>),
      JoinWith(<<CatC, SlugS \o Dot \o Zh \o Dot \o Html>>, <<"/">>),
      JoinWith(<<CatC, SlugS \o Dot \o En \o Dot \o Html>>, <<"/">>),
      JoinWith(<<CatC, SlugT \o Dot \o Html>>, <<"/">>) }

\* `due` marks a request that arrived after an article render had completed
\* and before any regeneration of the index began; `previews` is the vector
\* of collect_previews; `looked` is what fetch_cache_html answered,
\* `read_ok` whether its read succeeded, `found_fp` the theme fingerprint of
\* the entry that was under the key then, `pipeline_runs` the calls of
\* plugins.render_article, `stored` whether the request wrote the cache and
\* `waited` whether index_lock was held when the request came to lock it;
\* `raw` is the path of the request as serve_path received it
IdleRequest ==
    [ pc |-> "idle", html_path |-> <<>>, segments |-> <<>>, locale |-> NoneV,
      guard |-> 0, article |-> NoneV, html |-> NoneV, resp |-> "none",
      due |-> FALSE, previews |-> <<>>,
      looked |-> NoneV, read_ok |-> TRUE, found_fp |-> NoneV,
      pipeline_runs |-> 0, stored |-> FALSE, waited |-> FALSE, raw |-> <<>> ]

\* the request answered; its guard, if it holds one, is dropped
Answered(req, resp) == [req EXCEPT !.pc = "done", !.resp = resp]

ReleasedBy(r) == [ i \in 1..Len(mutexes) |-> IF mutexes[i] = r THEN 0 ELSE mutexes[i] ]

\* render_article_for up to the article guard
RenderArticleFor(html_path) ==
    LET segments == PathSegments(html_path)
    IN IF segments = NoneV \/ Len(Unwrap(segments)) = 0
       THEN Answered(IdleRequest, "NotFound")
       ELSE LET split == SplitLocaleFromSegments(Unwrap(segments))
            IN IF split = NoneV THEN Answered(IdleRequest, "NotFound")
               ELSE [IdleRequest EXCEPT !.pc = "guard",
                                        !.html_path = html_path,
                                        !.segments = Unwrap(split)[1],
                                        !.locale = Unwrap(split)[2]]

InitServe ==
    /\ fs = ServeFiles
    /\ theme = "t1"
    /\ hooks = <<"h1">>
    /\ cache = << >>
    /\ lastStore = << >>
    /\ PipeIdle
    /\ ResolveIdle
    /\ EngineIdle
    /\ requests = [ r \in Reqs |-> IdleRequest ]
    /\ article_guards = << >>
    /\ mutexes = <<>>
    /\ index_dirty = TRUE
    /\ index_fingerprint = NoneV
    /\ search_ready = TRUE
    /\ index_lock = 0
    /\ search_lock = 0
    /\ index_due = FALSE
    /\ HashIdle
    /\ SearchIdle
    /\ WasmIdle
    /\ CacheCallIdle
    /\ PluginsIdle
    /\ ExtractIdle
    /\ OpenIdle
    /\ NamingIdle

\* serve_path for a path that names a file: sanitize, resolve_static, then
\* render_article_for
ServePath(r, raw) ==
    /\ requests[r].pc = "idle"
    /\ LET sanitized == SanitizeRelativePath(raw)
       IN IF sanitized = NoneV
          THEN requests' = [requests EXCEPT
                  ![r] = [Answered(IdleRequest, "NotFound") EXCEPT !.raw = raw]]
          ELSE LET path == Unwrap(sanitized)
                   ext == Extension(path[Len(path)])
               IN /\ Len(path) > 0
                  /\ requests' = [requests EXCEPT ![r] =
                        [ (IF BuildPath(path) \in DOMAIN output
                           THEN [Answered(IdleRequest, "file") EXCEPT !.html_path = path]
                           ELSE IF ext = Some(Html) THEN RenderArticleFor(path)
                           ELSE IF ext = NoneV THEN RenderArticleFor(WithExtensionHtml(path))
                           ELSE Answered(IdleRequest, "NotFound"))
                          EXCEPT !.raw = raw ]]
    /\ UNCHANGED <<article_guards, mutexes, index_dirty, index_fingerprint, search_ready,
                   cacheVars, pipeVars, resolveVars, engineVars, hashVars, searchVars, serveLocks, wasmVars, cacheIoVars, pluginVars, extractVars, openVars, namingVars>>

\* article_guard: the mutex of the key, inserted when the table has none
ArticleGuard(r) ==
    /\ requests[r].pc = "guard"
    /\ LET key == GuardKey(requests[r].segments)
           guard == GuardOf(article_guards, key, Len(mutexes) + 1)
       IN /\ article_guards' =
                [ k \in DOMAIN article_guards \cup {key} |->
                    IF k = key THEN guard ELSE article_guards[k] ]
          /\ mutexes' = IF guard > Len(mutexes) THEN Append(mutexes, 0) ELSE mutexes
          /\ requests' = [requests EXCEPT ![r].pc = "lock", ![r].guard = guard]
    /\ UNCHANGED <<index_dirty, index_fingerprint, search_ready,
                   cacheVars, pipeVars, resolveVars, engineVars, hashVars, searchVars, serveLocks, wasmVars, cacheIoVars, pluginVars, extractVars, openVars, namingVars>>

\* guard.lock().await: the request goes on when the mutex is free
LockGuard(r) ==
    /\ requests[r].pc = "lock"
    /\ mutexes[requests[r].guard] = 0
    /\ mutexes' = [mutexes EXCEPT ![requests[r].guard] = r]
    /\ requests' = [requests EXCEPT ![r].pc = "open"]
    /\ UNCHANGED <<article_guards, index_dirty, index_fingerprint, search_ready,
                   cacheVars, pipeVars, resolveVars, engineVars, hashVars, searchVars, serveLocks, wasmVars, cacheIoVars, pluginVars, extractVars, openVars, namingVars>>

\* Article::open_with_locale(segments, locale)
OpenArticle(r) ==
    /\ requests[r].pc = "open"
    /\ LET article == OpenWithLocale(ServeRoot, fs, requests[r].segments, requests[r].locale)
       IN IF IsSome(article)
          THEN /\ requests' = [requests EXCEPT ![r].pc = "fetch", ![r].article = article]
               /\ UNCHANGED mutexes
          ELSE /\ requests' = [requests EXCEPT ![r] = Answered(@, "NotFound")]
               /\ mutexes' = ReleasedBy(r)
    /\ UNCHANGED <<article_guards, index_dirty, index_fingerprint, search_ready,
                   cacheVars, pipeVars, resolveVars, engineVars, hashVars, searchVars, serveLocks, wasmVars, cacheIoVars, pluginVars, extractVars, openVars, namingVars>>

\* render_article never takes the cached html
CachedHtmlNever(found) == FALSE

\* `if let Some(html) = self.fetch_cache_html(&article).await`
CachedHtml(found) == IsSome(found)

\* fetch_cache_html: a hit skips the pipeline; a failed read is a miss
FetchCacheHtml(r, readOk) ==
    /\ requests[r].pc = "fetch"
    /\ LET html == IF readOk
                   THEN Hit(cache, Unwrap(requests[r].article), ThemeFingerprint(theme))
                   ELSE NoneV
           key == ArticleKey(Unwrap(requests[r].article))
           entry_fp == IF key \in DOMAIN cache THEN Some(cache[key].theme_fingerprint)
                       ELSE NoneV
       IN requests' = IF CachedHtml(html)
                      THEN [requests EXCEPT ![r].pc = "write", ![r].html = html,
                                            ![r].looked = Some(html), ![r].read_ok = readOk,
                                            ![r].found_fp = entry_fp]
                      ELSE [requests EXCEPT ![r].pc = "render",
                                            ![r].looked = Some(html), ![r].read_ok = readOk,
                                            ![r].found_fp = entry_fp]
    /\ UNCHANGED <<article_guards, mutexes, index_dirty, index_fingerprint, search_ready,
                   cacheVars, pipeVars, resolveVars, engineVars, hashVars, searchVars, serveLocks, wasmVars, cacheIoVars, pluginVars, extractVars, openVars, namingVars>>

\* plugins.render_article(article)
RenderPipeline(r, ok) ==
    /\ requests[r].pc = "render"
    /\ IF ok
       THEN /\ requests' = [requests EXCEPT
                 ![r].pc = "store",
                 ![r].pipeline_runs = @ + 1,
                 ![r].html = Some(RenderArticle(theme, hooks, Unwrap(requests[r].article)))]
            /\ UNCHANGED mutexes
       ELSE /\ requests' = [requests EXCEPT
                 ![r] = Answered([@ EXCEPT !.pipeline_runs = @ + 1], "Internal")]
            /\ mutexes' = ReleasedBy(r)
    /\ UNCHANGED <<article_guards, index_dirty, index_fingerprint, search_ready,
                   cacheVars, pipeVars, resolveVars, engineVars, hashVars, searchVars, serveLocks, wasmVars, cacheIoVars, pluginVars, extractVars, openVars, namingVars>>

\* store_cache_html
StoreCacheHtml(r, ok) ==
    /\ requests[r].pc = "store"
    /\ IF ok
       THEN /\ cache' = Store(cache, Unwrap(requests[r].article), Unwrap(requests[r].html),
                              ThemeFingerprint(theme))
            /\ requests' = [requests EXCEPT ![r].pc = "write", ![r].stored = TRUE]
            /\ UNCHANGED mutexes
       ELSE /\ requests' = [requests EXCEPT ![r] = Answered(@, "Internal")]
            /\ mutexes' = ReleasedBy(r)
            /\ UNCHANGED cache
    /\ UNCHANGED <<article_guards, index_dirty, index_fingerprint, search_ready,
                   fs, theme, hooks, lastStore, pipeVars, resolveVars, engineVars, hashVars, searchVars, serveLocks, wasmVars, cacheIoVars, pluginVars, extractVars, openVars, namingVars>>

\* write(build_dir.join(html_path), html)
WriteOutput(r, ok) ==
    /\ requests[r].pc = "write"
    /\ IF ok
       THEN /\ output' = WriteFile(output, BuildPath(requests[r].html_path),
                                   Unwrap(requests[r].html))
            /\ requests' = [requests EXCEPT ![r].pc = "dirty"]
            /\ UNCHANGED mutexes
       ELSE /\ requests' = [requests EXCEPT ![r] = Answered(@, "Internal")]
            /\ mutexes' = ReleasedBy(r)
            /\ UNCHANGED output
    /\ UNCHANGED <<article_guards, index_dirty, index_fingerprint, search_ready,
                   map, articles_preview, changed_articles, render_task, awaitIdx, epc,
                   cacheVars, pipeVars, resolveVars, hashVars, searchVars, serveLocks, wasmVars, cacheIoVars, pluginVars, extractVars, openVars, namingVars>>

\* index_dirty.store(true)
StoreIndexDirty(r) ==
    /\ requests[r].pc = "dirty"
    /\ index_dirty' = TRUE
    /\ requests' = [requests EXCEPT ![r].pc = "fingerprint"]
    /\ UNCHANGED <<article_guards, mutexes, index_fingerprint, search_ready,
                   cacheVars, pipeVars, resolveVars, engineVars, hashVars, searchVars, serveLocks, wasmVars, cacheIoVars, pluginVars, extractVars, openVars, namingVars>>

\* *index_fingerprint.lock() = None
ClearIndexFingerprint(r) ==
    /\ requests[r].pc = "fingerprint"
    /\ index_fingerprint' = NoneV
    /\ requests' = [requests EXCEPT ![r].pc = "search"]
    /\ UNCHANGED <<article_guards, mutexes, index_dirty, search_ready,
                   cacheVars, pipeVars, resolveVars, engineVars, hashVars, searchVars, serveLocks, wasmVars, cacheIoVars, pluginVars, extractVars, openVars, namingVars>>

\* search_ready.store(false), the response, and the guard dropped
StoreSearchReady(r) ==
    /\ requests[r].pc = "search"
    /\ search_ready' = FALSE
    /\ requests' = [ q \in DOMAIN requests |->
                       IF q = r THEN Answered(requests[q], "html")
                       ELSE [requests[q] EXCEPT !.due = FALSE] ]
    /\ mutexes' = ReleasedBy(r)
    /\ index_due' = TRUE
    /\ UNCHANGED <<article_guards, index_dirty, index_fingerprint, index_lock, search_lock,
                   cacheVars, pipeVars, resolveVars, engineVars, hashVars, searchVars, wasmVars, cacheIoVars, pluginVars, extractVars, openVars, namingVars>>

NextServe ==
    \E r \in Reqs :
        \/ \E raw \in ServePaths : ServePath(r, raw)
        \/ ArticleGuard(r)
        \/ LockGuard(r)
        \/ OpenArticle(r)
        \/ \E readOk \in BOOLEAN : FetchCacheHtml(r, readOk)
        \/ \E ok \in BOOLEAN : RenderPipeline(r, ok)
        \/ \E ok \in BOOLEAN : StoreCacheHtml(r, ok)
        \/ \E ok \in BOOLEAN : WriteOutput(r, ok)
        \/ StoreIndexDirty(r)
        \/ ClearIndexFingerprint(r)
        \/ StoreSearchReady(r)

SpecServe == InitServe /\ [][NextServe]_vars

\* C7: locale routing: the file emitted for a variant of an article is at
\* <category>/<slug>.html if and only if the locale of the variant is the
\* default locale of the article, and at <category>/<slug>.<locale>.html
\* otherwise; that is, every page in the build directory lies at the
\* output_file of the article it is a page of.
C7_LocaleRouting ==
    \A path \in DOMAIN output : path = OutputFile(output[path].page_of)

\* the requests inside the open-render-write section of render_article_for
InSection(r) ==
    requests[r].pc \in {"open", "fetch", "render", "store", "write",
                        "dirty", "fingerprint", "search"}

\* C10: the article guard serializes the requests of one article key: no two
\* requests of the same key are inside the open-render-write section at the
\* same time, and a request of a key whose section is occupied by another
\* request is still waiting for the guard.
C10_PerArticleGuard ==
    \A r1, r2 \in Reqs :
        (r1 # r2 /\ InSection(r1)
                 /\ requests[r2].pc \notin {"idle", "guard", "done"}
                 /\ GuardKey(requests[r1].segments) = GuardKey(requests[r2].segments))
        => requests[r2].pc = "lock"

\* two requests of key c/s for different files: one in the section, the other
\* waiting for the guard
C10_Witness ==
    \E r1, r2 \in Reqs :
        /\ r1 # r2
        /\ InSection(r1)
        /\ requests[r2].pc = "lock"
        /\ GuardKey(requests[r1].segments) = GuardKey(requests[r2].segments)
        /\ requests[r1].html_path # requests[r2].html_path

(***************************************************************************)
(* SpecIndex: the preview server answering requests for `/` (serve_index,  *)
(* ensure_index) next to requests for an article page.  A connection that  *)
(* was answered carries the next request.                                  *)
(***************************************************************************)
\* collect_previews: the default-locale items of one traversal
CollectPreviews(root, files) ==
    LET items == SelectSeq(WalkArticles(root, files), IsDefaultLocale)
    IN [ i \in 1..Len(items) |-> Preview(items[i]) ]

\* compute_index_fingerprint: the digest of output_file and sha256 of every
\* default-locale item, in the order of the traversal
ComputeIndexFingerprint(root, files) ==
    LET items == SelectSeq(WalkArticles(root, files), IsDefaultLocale)
    IN [ i \in 1..Len(items) |-> <<OutputFile(items[i]), Sha256(items[i])>> ]

\* the article page requested next to the index: c/s.html
IndexSpecPaths == { JoinWith(<<CatC, SlugS \o Dot \o Html>>, <<"/">>) }

\* the request comes to index_lock.lock()
AtIndexLock(req) == [req EXCEPT !.pc = "ix_lock", !.waited = index_lock /= 0]

\* serve_path with the empty path: serve_index
ServeIndex(r) ==
    /\ requests[r].pc = "idle"
    /\ requests' = [requests EXCEPT ![r].pc = "ix_fast", ![r].due = index_due]
    /\ UNCHANGED <<article_guards, mutexes, index_dirty, index_fingerprint, search_ready,
                   cacheVars, pipeVars, resolveVars, engineVars, hashVars, searchVars, serveLocks, wasmVars, cacheIoVars, pluginVars, extractVars, openVars, namingVars>>

\* `file_exists(index.html) && !index_dirty`, before index_lock ("ix_fast")
\* and again under it ("ix_check")
CheckIndexWritten(r) ==
    /\ requests[r].pc \in {"ix_fast", "ix_check"}
    /\ LET current == IndexHtml \in DOMAIN output /\ ~index_dirty
       IN requests' = [requests EXCEPT ![r] =
             IF requests[r].pc = "ix_fast"
             THEN (IF current THEN [@ EXCEPT !.pc = "ix_fast_fp"] ELSE AtIndexLock(@))
             ELSE [@ EXCEPT !.pc = IF current THEN "ix_check_fp" ELSE "ix_collect"]]
    /\ UNCHANGED <<article_guards, mutexes, index_dirty, index_fingerprint, search_ready,
                   cacheVars, pipeVars, resolveVars, engineVars, hashVars, searchVars, serveLocks, wasmVars, cacheIoVars, pluginVars, extractVars, openVars, namingVars>>

\* the recorded fingerprint compared with compute_index_fingerprint: equal,
\* index.html is served as it is
CompareIndexFingerprint(r) ==
    /\ requests[r].pc \in {"ix_fast_fp", "ix_check_fp"}
    /\ IF index_fingerprint = Some(ComputeIndexFingerprint(ServeRoot, fs))
       THEN /\ requests' = [requests EXCEPT ![r] = Answered(@, "index_as_written")]
            /\ index_lock' = IF index_lock = r THEN 0 ELSE index_lock
       ELSE /\ requests' = [requests EXCEPT ![r] =
                  IF requests[r].pc = "ix_fast_fp" THEN AtIndexLock(@)
                  ELSE [@ EXCEPT !.pc = "ix_collect"]]
            /\ UNCHANGED index_lock
    /\ UNCHANGED <<article_guards, mutexes, index_dirty, index_fingerprint, search_ready,
                   search_lock, index_due,
                   cacheVars, pipeVars, resolveVars, engineVars, hashVars, searchVars, wasmVars, cacheIoVars, pluginVars, extractVars, openVars, namingVars>>

\* index_lock is handed to whoever asks
IndexLockAlwaysFree == TRUE

\* index_lock is not held
IndexLockFree == index_lock = 0

\* index_lock.lock().await
LockIndex(r) ==
    /\ requests[r].pc = "ix_lock"
    /\ IndexLockFree
    /\ index_lock' = r
    /\ requests' = [requests EXCEPT ![r].pc = "ix_check"]
    /\ UNCHANGED <<article_guards, mutexes, index_dirty, index_fingerprint, search_ready,
                   search_lock, index_due,
                   cacheVars, pipeVars, resolveVars, engineVars, hashVars, searchVars, wasmVars, cacheIoVars, pluginVars, extractVars, openVars, namingVars>>

\* collect_previews
CollectIndexPreviews(r) ==
    /\ requests[r].pc = "ix_collect"
    /\ requests' = [ q \in DOMAIN requests |->
                       IF q = r
                       THEN [requests[q] EXCEPT !.pc = "ix_render", !.due = FALSE,
                                                !.previews = CollectPreviews(ServeRoot, fs)]
                       ELSE [requests[q] EXCEPT !.due = FALSE] ]
    /\ index_due' = FALSE
    /\ UNCHANGED <<article_guards, mutexes, index_dirty, index_fingerprint, search_ready,
                   index_lock, search_lock,
                   cacheVars, pipeVars, resolveVars, engineVars, hashVars, searchVars, wasmVars, cacheIoVars, pluginVars, extractVars, openVars, namingVars>>

\* plugins.render_index(previews)
RenderIndexPage(r, ok) ==
    /\ requests[r].pc = "ix_render"
    /\ IF ok
       THEN /\ requests' = [requests EXCEPT
                 ![r].pc = "ix_write",
                 ![r].html = Some(RenderIndex(theme, requests[r].previews))]
            /\ UNCHANGED index_lock
       ELSE /\ requests' = [requests EXCEPT ![r] = Answered(@, "Internal")]
            /\ index_lock' = 0
    /\ UNCHANGED <<article_guards, mutexes, index_dirty, index_fingerprint, search_ready,
                   search_lock, index_due,
                   cacheVars, pipeVars, resolveVars, engineVars, hashVars, searchVars, wasmVars, cacheIoVars, pluginVars, extractVars, openVars, namingVars>>

\* write(index.html, rendered)
WriteIndex(r, ok) ==
    /\ requests[r].pc = "ix_write"
    /\ IF ok
       THEN /\ output' = WriteFile(output, IndexHtml, Unwrap(requests[r].html))
            /\ requests' = [requests EXCEPT ![r].pc = "ix_clean"]
            /\ UNCHANGED index_lock
       ELSE /\ requests' = [requests EXCEPT ![r] = Answered(@, "Internal")]
            /\ index_lock' = 0
            /\ UNCHANGED output
    /\ UNCHANGED <<article_guards, mutexes, index_dirty, index_fingerprint, search_ready,
                   search_lock, index_due,
                   map, articles_preview, changed_articles, render_task, awaitIdx, epc,
                   cacheVars, pipeVars, resolveVars, hashVars, searchVars, wasmVars, cacheIoVars, pluginVars, extractVars, openVars, namingVars>>

\* index_dirty.store(false)
ClearIndexDirty(r) ==
    /\ requests[r].pc = "ix_clean"
    /\ index_dirty' = FALSE
    /\ requests' = [requests EXCEPT ![r].pc = "ix_record"]
    /\ UNCHANGED <<article_guards, mutexes, index_fingerprint, search_ready,
                   cacheVars, pipeVars, resolveVars, engineVars, hashVars, searchVars, serveLocks, wasmVars, cacheIoVars, pluginVars, extractVars, openVars, namingVars>>

\* the fingerprint computed and recorded, index_lock dropped, index.html served
RecordIndexFingerprint(r) ==
    /\ requests[r].pc = "ix_record"
    /\ index_fingerprint' = Some(ComputeIndexFingerprint(ServeRoot, fs))
    /\ index_lock' = 0
    /\ requests' = [requests EXCEPT ![r] = Answered(@, "index_regenerated")]
    /\ UNCHANGED <<article_guards, mutexes, index_dirty, search_ready,
                   search_lock, index_due,
                   cacheVars, pipeVars, resolveVars, engineVars, hashVars, searchVars, wasmVars, cacheIoVars, pluginVars, extractVars, openVars, namingVars>>

\* the connection of an answered request carries its next request
NextRequest(r) ==
    /\ requests[r].pc = "done"
    /\ requests' = [requests EXCEPT ![r] = IdleRequest]
    /\ UNCHANGED <<article_guards, mutexes, index_dirty, index_fingerprint, search_ready,
                   cacheVars, pipeVars, resolveVars, engineVars, hashVars, searchVars, serveLocks, wasmVars, cacheIoVars, pluginVars, extractVars, openVars, namingVars>>

ArticleSteps(r) ==
    \/ ArticleGuard(r)
    \/ LockGuard(r)
    \/ OpenArticle(r)
    \/ \E readOk \in BOOLEAN : FetchCacheHtml(r, readOk)
    \/ \E ok \in BOOLEAN : RenderPipeline(r, ok)
    \/ \E ok \in BOOLEAN : StoreCacheHtml(r, ok)
    \/ \E ok \in BOOLEAN : WriteOutput(r, ok)
    \/ StoreIndexDirty(r)
    \/ ClearIndexFingerprint(r)
    \/ StoreSearchReady(r)

IndexSteps(r) ==
    \/ CheckIndexWritten(r)
    \/ CompareIndexFingerprint(r)
    \/ LockIndex(r)
    \/ CollectIndexPreviews(r)
    \/ \E ok \in BOOLEAN : RenderIndexPage(r, ok)
    \/ \E ok \in BOOLEAN : WriteIndex(r, ok)
    \/ ClearIndexDirty(r)
    \/ RecordIndexFingerprint(r)

NextIndex ==
    \E r \in Reqs :
        \/ \E raw \in IndexSpecPaths : ServePath(r, raw)
        \/ ServeIndex(r)
        \/ ArticleSteps(r)
        \/ IndexSteps(r)
        \/ NextRequest(r)

SpecIndex == InitServe /\ [][NextIndex]_vars

\* C11: after an on-demand article render has completed, the next index
\* request regenerates the index: a request that arrived after the render,
\* with no regeneration begun since the render, is not answered with
\* index.html as it was written before.
C11_IndexRegenerated ==
    \A r \in Reqs :
        (requests[r].due /\ requests[r].pc = "done")
        => requests[r].resp # "index_as_written"

\* the request is regenerating the index: past the re-check, before its return
Regenerating(r) ==
    requests[r].pc \in {"ix_collect", "ix_render", "ix_write", "ix_clean", "ix_record"}

\* a step of the re-check under index_lock: with index.html present and the
\* dirty flag clear the request goes on to compare the fingerprint, and with
\* the recorded fingerprint equal to the current one it returns index.html
RecheckStep ==
    \A r \in Reqs :
        /\ (/\ requests[r].pc = "ix_check"
            /\ requests'[r].pc /= "ix_check"
            /\ IndexHtml \in DOMAIN output /\ ~index_dirty)
           => requests'[r].pc = "ix_check_fp"
        /\ (/\ requests[r].pc = "ix_check_fp"
            /\ requests'[r].pc /= "ix_check_fp"
            /\ index_fingerprint = Some(ComputeIndexFingerprint(ServeRoot, fs)))
           => (requests'[r].pc = "done" /\ requests'[r].resp = "index_as_written")

\* C25: regeneration of the index is serialized: at most one request is
\* regenerating at any time, and it holds index_lock; a request re-checks
\* under the lock and returns index.html without regenerating when
\* index.html exists, the dirty flag is clear and the recorded fingerprint
\* equals the current one.
C25_IndexSerialized ==
    /\ [](\A r1, r2 \in Reqs :
            /\ Regenerating(r1) => index_lock = r1
            /\ (Regenerating(r1) /\ Regenerating(r2)) => r1 = r2)
    /\ [][RecheckStep]_vars

\* C25 witness: a request that found index_lock held has been answered with
\* index.html as the holder wrote it
C25_Witness ==
    \E r \in Reqs :
        /\ requests[r].pc = "done"
        /\ requests[r].waited
        /\ requests[r].resp = "index_as_written"

(***************************************************************************)
(* SpecHash: Article::sha256 over copies of one workspace.  The same files *)
(* lie below each root of Roots; an article is opened in one of the copies *)
(* and its fingerprint taken.                                              *)
(***************************************************************************)
HashDir == <<CatC, SlugS>>

\* the fields the fingerprint is specified over
CanonicalFields(a) ==
    << a.title, a.slug, a.category, a.locale,
       << a.metadata.created, a.metadata.tags, a.metadata.author,
          a.metadata.description >>,
       a.description, a.content, a.translations >>

InitHash ==
    /\ fs \in { [ d \in {HashDir} |-> Some(st) ] : st \in DirStates }
    /\ theme = "t1"
    /\ hooks = <<>>
    /\ cache = << >>
    /\ lastStore = << >>
    /\ PipeIdle
    /\ ResolveIdle
    /\ EngineIdle
    /\ ServeIdle
    /\ digests = {}
    /\ SearchIdle
    /\ WasmIdle
    /\ CacheCallIdle
    /\ PluginsIdle
    /\ ExtractIdle
    /\ OpenIdle
    /\ NamingIdle

\* the workspace copy at `root` opens a variant of the article and hashes it
HashArticle(root, locale) ==
    /\ LET opened == OpenWithLocale(root, fs, HashDir, locale)
       IN /\ IsSome(opened)
          /\ digests' = digests \cup
                { [ article |-> Unwrap(opened), sha256 |-> Sha256(Unwrap(opened)) ] }
    /\ UNCHANGED <<cacheVars, pipeVars, resolveVars, engineVars, serveVars, searchVars, wasmVars, cacheIoVars, pluginVars, extractVars, openVars, namingVars>>

NextHash ==
    \E root \in Roots, locale \in {NoneV} \cup { Some(l) : l \in Locales } :
        HashArticle(root, locale)

SpecHash == InitHash /\ [][NextHash]_vars

\* C9: the fingerprint of an article is a function of its canonical fields
\* (title, slug, category path, locale, metadata, description, content,
\* translations) and of nothing else: two articles hashed with the same
\* canonical fields, such as the same article in two copies of a workspace,
\* have the same sha256, and two that differ in a canonical field do not.
C9_FingerprintStable ==
    \A e1, e2 \in digests :
        (CanonicalFields(e1.article) = CanonicalFields(e2.article))
        <=> (e1.sha256 = e2.sha256)


(***************************************************************************)
(* SpecSearcher: the searcher of one workspace (src/src/search.rs).  The   *)
(* workspace is edited between and during the calls of ensure_index; the   *)
(* index and the fingerprint of the meta database outlive each call.       *)
(***************************************************************************)
MaxFingerprint == 2

\* the fingerprints a caller passes: opaque strings
Fingerprints == 1..MaxFingerprint

SearcherRoot == <<"/", "a">>

\* Searcher::encode_category: the segments as a JSON array
EncodeCategory(segments) == <<"json", segments>>

\* IndexedDoc: what Searcher::index takes from one article
IndexedDoc(a) ==
    [ title |-> a.title, content |-> a.content, description |-> a.description,
      permalink |-> OutputFile(a), locale |-> a.locale,
      default_locale |-> a.default_locale, slug |-> a.slug,
      category |-> EncodeCategory(a.category) ]

\* the documents Searcher::index commits: one per item of workspace.articles()
IndexDocs(root, files) ==
    LET items == WalkArticles(root, files)
    IN [ i \in 1..Len(items) |-> IndexedDoc(items[i]) ]

\* `if current == expected` never holds: every call rebuilds
FingerprintNeverCurrent(current, expected) == FALSE

\* `if let Some(current) = read_fingerprint()? { if current == expected`
FingerprintCurrent(current, expected) ==
    IsSome(current) /\ Unwrap(current) = expected

InitSearcher ==
    /\ fs = CacheFiles(0, 0)
    /\ theme = "t1"
    /\ hooks = <<>>
    /\ cache = [ k \in {} |-> 0 ]
    /\ lastStore = NoneV
    /\ PipeIdle
    /\ ResolveIdle
    /\ EngineIdle
    /\ ServeIdle
    /\ HashIdle
    /\ SearchIdle
    /\ WasmIdle
    /\ CacheCallIdle
    /\ PluginsIdle
    /\ ExtractIdle
    /\ OpenIdle
    /\ NamingIdle

\* an article body is edited on disk
EditWorkspace(doc) ==
    /\ doc /= Unwrap(fs[CacheDir]).doc
    /\ fs' = CacheFiles(doc, Unwrap(fs[CacheDir]).meta)
    /\ UNCHANGED <<theme, hooks, cache, lastStore, pipeVars, resolveVars,
                   engineVars, serveVars, hashVars, searchVars, wasmVars, cacheIoVars, pluginVars, extractVars, openVars, namingVars>>

\* Searcher::ensure_index is called with Some(fingerprint) or None
EnsureIndex(fp) ==
    /\ sCall.pc = "idle"
    /\ sCall' = [ pc |-> IF IsSome(fp) THEN "read" ELSE "index",
                  fingerprint |-> fp, stored |-> search_meta,
                  rebuilt |-> FALSE, result |-> "none" ]
    /\ UNCHANGED <<search_index, search_meta, emissions, cacheVars, pipeVars,
                   resolveVars, engineVars, serveVars, hashVars, wasmVars, cacheIoVars, pluginVars, extractVars, openVars, namingVars>>

\* read_fingerprint()? and the comparison with the expected fingerprint
ReadFingerprint(ok) ==
    /\ sCall.pc = "read"
    /\ sCall' =
         IF ~ok THEN [sCall EXCEPT !.pc = "returned", !.result = "Err"]
         ELSE IF FingerprintCurrent(search_meta, Unwrap(sCall.fingerprint))
         THEN [sCall EXCEPT !.pc = "returned", !.result = "Ok(false)"]
         ELSE [sCall EXCEPT !.pc = "index"]
    /\ UNCHANGED <<search_index, search_meta, emissions, cacheVars, pipeVars,
                   resolveVars, engineVars, serveVars, hashVars, wasmVars, cacheIoVars, pluginVars, extractVars, openVars, namingVars>>

\* self.index().await?: the commit replaces every document, or nothing changes
Index(ok) ==
    /\ sCall.pc = "index"
    /\ IF ~ok
       THEN /\ sCall' = [sCall EXCEPT !.pc = "returned", !.result = "Err"]
            /\ UNCHANGED search_index
       ELSE /\ search_index' = IndexDocs(SearcherRoot, fs)
            /\ sCall' =
                 IF IsSome(sCall.fingerprint)
                 THEN [sCall EXCEPT !.pc = "write", !.rebuilt = TRUE]
                 ELSE [sCall EXCEPT !.pc = "returned", !.rebuilt = TRUE,
                                    !.result = "Ok(true)"]
    /\ UNCHANGED <<search_meta, emissions, cacheVars, pipeVars, resolveVars,
                   engineVars, serveVars, hashVars, wasmVars, cacheIoVars, pluginVars, extractVars, openVars, namingVars>>

\* self.write_fingerprint(expected).await?
WriteFingerprint(ok) ==
    /\ sCall.pc = "write"
    /\ IF ~ok
       THEN /\ sCall' = [sCall EXCEPT !.pc = "returned", !.result = "Err"]
            /\ UNCHANGED search_meta
       ELSE /\ search_meta' = sCall.fingerprint
            /\ sCall' = [sCall EXCEPT !.pc = "returned", !.result = "Ok(true)"]
    /\ UNCHANGED <<search_index, emissions, cacheVars, pipeVars, resolveVars,
                   engineVars, serveVars, hashVars, wasmVars, cacheIoVars, pluginVars, extractVars, openVars, namingVars>>

\* the caller has the result; the searcher waits for the next call
ReturnEnsureIndex ==
    /\ sCall.pc = "returned"
    /\ sCall' = IdleCall
    /\ UNCHANGED <<search_index, search_meta, emissions, cacheVars, pipeVars,
                   resolveVars, engineVars, serveVars, hashVars, wasmVars, cacheIoVars, pluginVars, extractVars, openVars, namingVars>>

NextSearcher ==
    \/ \E doc \in Docs : EditWorkspace(doc)
    \/ \E fp \in {NoneV} \cup { Some(f) : f \in Fingerprints } : EnsureIndex(fp)
    \/ \E ok \in BOOLEAN : ReadFingerprint(ok)
    \/ \E ok \in BOOLEAN : Index(ok)
    \/ \E ok \in BOOLEAN : WriteFingerprint(ok)
    \/ ReturnEnsureIndex

SpecSearcher == InitSearcher /\ [][NextSearcher]_vars

\* C13: a call of ensure_index that returns Ok has rebuilt the index exactly
\* when the fingerprint it was given differs from the one stored before the
\* call (or none was stored); after a call with a fingerprint returns Ok the
\* stored fingerprint is that fingerprint; and during any call the stored
\* fingerprint differs from the one before the call only once the rebuild
\* has completed, and is then the fingerprint of the call.
C13_EnsureIndex ==
    /\ (sCall.pc = "returned" /\ sCall.result \in {"Ok(true)", "Ok(false)"})
         => /\ sCall.rebuilt <=>
                 (sCall.fingerprint /= sCall.stored \/ sCall.stored = NoneV)
            /\ (sCall.result = "Ok(true)") <=> sCall.rebuilt
            /\ IsSome(sCall.fingerprint) => search_meta = sCall.fingerprint
    /\ (sCall.pc /= "idle" /\ search_meta /= sCall.stored)
         => sCall.rebuilt /\ search_meta = sCall.fingerprint

\* both cases have happened: a call that found its fingerprint stored and
\* kept the index, after a call that rebuilt and stored that fingerprint
C13_Witness ==
    /\ sCall.pc = "returned"
    /\ sCall.result = "Ok(false)"
    /\ sCall.stored = sCall.fingerprint
    /\ search_index /= <<>>

(***************************************************************************)
(* SpecSearch: the server with requests for article pages and for the      *)
(* search assets (serve.rs ensure_search_assets, search.rs                 *)
(* emit_search_bundle).  ServeState::new has run: the bundle is in the     *)
(* output directory and search_ready is true.  No article file is edited.  *)
(***************************************************************************)
MaxEmit == 2

\* the combined article fingerprint: the sha256 of every item of the traversal
CombinedFingerprint(root, files) ==
    LET items == WalkArticles(root, files)
    IN [ i \in 1..Len(items) |-> Sha256(items[i]) ]

\* search_files_exist: thought-search.js and thought-search.wasm are written
\* together, by every emission
SearchFilesExist == Len(emissions) > 0

InitSearch ==
    /\ fs = ServeFiles
    /\ theme = "t1"
    /\ hooks = <<"h1">>
    /\ cache = << >>
    /\ lastStore = << >>
    /\ PipeIdle
    /\ ResolveIdle
    /\ EngineIdle
    /\ requests = [ r \in Reqs |-> IdleRequest ]
    /\ article_guards = << >>
    /\ mutexes = <<>>
    /\ index_dirty = TRUE
    /\ index_fingerprint = NoneV
    /\ search_ready = TRUE
    /\ index_lock = 0
    /\ search_lock = 0
    /\ index_due = FALSE
    /\ HashIdle
    /\ search_index = IndexDocs(ServeRoot, ServeFiles)
    /\ search_meta = NoneV
    /\ sCall = IdleCall
    /\ emissions = << CombinedFingerprint(ServeRoot, ServeFiles) >>
    /\ WasmIdle
    /\ CacheCallIdle
    /\ PluginsIdle
    /\ ExtractIdle
    /\ OpenIdle
    /\ NamingIdle

\* serve_path for assets/thought-search/thought-search.{js,wasm}
ServeSearchAsset(r) ==
    /\ requests[r].pc = "idle"
    /\ Len(emissions) < MaxEmit
    /\ requests' = [requests EXCEPT ![r].pc = "sa_fast"]
    /\ UNCHANGED <<article_guards, mutexes, index_dirty, index_fingerprint, search_ready,
                   cacheVars, pipeVars, resolveVars, engineVars, hashVars, searchVars, serveLocks, wasmVars, cacheIoVars, pluginVars, extractVars, openVars, namingVars>>

\* `search_ready && search_files_exist()`, before search_lock ("sa_fast") and
\* again under it ("sa_check")
CheckSearchReady(r) ==
    /\ requests[r].pc \in {"sa_fast", "sa_check"}
    /\ LET current == search_ready /\ SearchFilesExist
       IN /\ requests' = [requests EXCEPT ![r] =
                IF current THEN Answered(@, "asset_as_written")
                ELSE [@ EXCEPT !.pc = IF @ = "sa_fast" THEN "sa_lock" ELSE "sa_emit"]]
          /\ search_lock' =
                IF current /\ requests[r].pc = "sa_check" THEN 0 ELSE search_lock
    /\ UNCHANGED <<article_guards, mutexes, index_dirty, index_fingerprint, search_ready,
                   index_lock, index_due,
                   cacheVars, pipeVars, resolveVars, engineVars, hashVars, searchVars, wasmVars, cacheIoVars, pluginVars, extractVars, openVars, namingVars>>

\* self.search_lock.lock().await
LockSearch(r) ==
    /\ requests[r].pc = "sa_lock"
    /\ search_lock = 0
    /\ search_lock' = r
    /\ requests' = [requests EXCEPT ![r].pc = "sa_check"]
    /\ UNCHANGED <<article_guards, mutexes, index_dirty, index_fingerprint, search_ready,
                   index_lock, index_due,
                   cacheVars, pipeVars, resolveVars, engineVars, hashVars, searchVars, wasmVars, cacheIoVars, pluginVars, extractVars, openVars, namingVars>>

\* emit_search_bundle(workspace, output, None): ensure_index(None) rebuilds
\* the index, then the wasm and the js wrapper are written
EmitSearchBundle(r, ok) ==
    /\ requests[r].pc = "sa_emit"
    /\ IF ok
       THEN /\ search_index' = IndexDocs(ServeRoot, fs)
            /\ emissions' = Append(emissions, CombinedFingerprint(ServeRoot, fs))
            /\ requests' = [requests EXCEPT ![r].pc = "sa_store"]
            /\ UNCHANGED search_lock
       ELSE /\ requests' = [requests EXCEPT ![r] = Answered(@, "Internal")]
            /\ search_lock' = 0
            /\ UNCHANGED <<search_index, emissions>>
    /\ UNCHANGED <<article_guards, mutexes, index_dirty, index_fingerprint, search_ready,
                   index_lock, index_due, search_meta, sCall,
                   cacheVars, pipeVars, resolveVars, engineVars, hashVars, wasmVars, cacheIoVars, pluginVars, extractVars, openVars, namingVars>>

\* self.search_ready.store(true); the guard of search_lock is dropped
MarkSearchReady(r) ==
    /\ requests[r].pc = "sa_store"
    /\ search_ready' = TRUE
    /\ search_lock' = 0
    /\ requests' = [requests EXCEPT ![r] = Answered(@, "asset_emitted")]
    /\ UNCHANGED <<article_guards, mutexes, index_dirty, index_fingerprint,
                   index_lock, index_due,
                   cacheVars, pipeVars, resolveVars, engineVars, hashVars, searchVars, wasmVars, cacheIoVars, pluginVars, extractVars, openVars, namingVars>>

NextSearch ==
    \E r \in Reqs :
        \/ \E raw \in IndexSpecPaths : ServePath(r, raw)
        \/ ServeSearchAsset(r)
        \/ ArticleSteps(r)
        \/ CheckSearchReady(r)
        \/ LockSearch(r)
        \/ \E ok \in BOOLEAN : EmitSearchBundle(r, ok)
        \/ MarkSearchReady(r)
        \/ NextRequest(r)

SpecSearch == InitSearch /\ [][NextSearch]_vars

\* C12: the search bundle is emitted again only when the combined article
\* fingerprint differs from the one of the emission before it.
C12_EmittedOnlyOnChange ==
    \A i \in 1..(Len(emissions) - 1) : emissions[i + 1] /= emissions[i]

(***************************************************************************)
(* SpecPayload: the search payload of a workspace (search.rs build_wasm):  *)
(* export_records serializes one JSON record per article, and              *)
(* encode_payload_as_wasm wraps the bytes in a module; a reader calls the  *)
(* two exported functions, reads the memory and parses the JSON.  Bytes    *)
(* are one-character strings; a key is one token.                          *)
(***************************************************************************)
MaxRecords == 2

\* the wasm page, 0x10000 bytes
PageSize == 65536

\* the largest i32
I32Max == 2147483647

Quote == "\""

Backslash == "\\"

\* the texts of the articles of the payload runs; they hold the characters
\* JSON escapes and the ones it uses for structure
PayloadTexts == { <<"a">>, <<Quote, "}">>, <<Backslash, ",">> }

\* the articles a workspace of the payload runs can hold
PayloadArticles ==
    [ title : PayloadTexts, slug : {SlugS}, category : {<<>>, <<CatC, <<"]">>>>},
      description : {<<>>, <<Quote>>}, locale : Locales, default_locale : {En} ]

RECURSIVE ListsUpTo(_, _)
ListsUpTo(S, n) ==
    IF n = 0 THEN {<<>>}
    ELSE LET shorter == ListsUpTo(S, n - 1)
         IN shorter \cup { Append(l, x) : l \in { k \in shorter : Len(k) = n - 1 }, x \in S }

\* a string written without escaping
EscapeNothing(str) == str

RECURSIVE Escape(_)
\* serde_json's string escaping: a quote and a backslash get a backslash
Escape(str) ==
    IF Len(str) = 0 THEN <<>>
    ELSE (IF Head(str) \in {Quote, Backslash} THEN <<Backslash, Head(str)>>
          ELSE <<Head(str)>>) \o Escape(Tail(str))

JsonString(str) == <<Quote>> \o Escape(str) \o <<Quote>>

\* a JSON array or object of serialized members
JsonList(open, members, close) == <<open>> \o JoinWith(members, <<",">>) \o <<close>>

JsonMember(key, value) == JsonString(<<key>>) \o <<":">> \o value

\* the json! object of one article
JsonRecord(a) ==
    JsonList("{",
        << JsonMember("title", JsonString(a.title)),
           JsonMember("slug", JsonString(a.slug)),
           JsonMember("category",
               JsonList("[", [ i \in 1..Len(a.category) |-> JsonString(a.category[i]) ], "]")),
           JsonMember("description", JsonString(a.description)),
           JsonMember("permalink", JsonString(OutputFile(a))),
           JsonMember("locale", JsonString(a.locale)),
           JsonMember("default_locale", JsonString(a.default_locale)) >>,
        "}")

\* Searcher::export_records: serde_json::to_vec of the records, in stream order
ExportRecords(items) ==
    JsonList("[", [ i \in 1..Len(items) |-> JsonRecord(items[i]) ], "]")

\* `payload.len() as i32`
AsI32(n) == IF n <= I32Max THEN n ELSE ((n - I32Max) - 1) - I32Max - 1

\* Searcher::encode_payload_as_wasm: the memory of `pages` pages, the two
\* functions and the active data segment at offset 0
EncodePayloadAsWasm(payload) ==
    LET needed == (Len(payload) + PageSize - 1) \div PageSize
    IN [ pages |-> IF needed < 1 THEN 1 ELSE needed,
         thought_search_data_len |-> AsI32(Len(payload)),
         thought_search_data_ptr |-> 0,
         data_offset |-> 0,
         data |-> payload ]

\* the byte of the instantiated memory at an address: the data segment where
\* it was copied, zero elsewhere
MemoryByte(module, addr) ==
    IF addr >= module.data_offset /\ addr < module.data_offset + Len(module.data)
    THEN module.data[addr - module.data_offset + 1]
    ELSE "0"

\* memory[ptr, ptr + len) as the reader takes it; None when the range is not
\* in the memory
ReadSearchData(module) ==
    LET ptr == module.thought_search_data_ptr
        len == module.thought_search_data_len
    IN IF len < 0 \/ ptr + len > module.pages * PageSize THEN NoneV
       ELSE Some([ i \in 1..len |-> MemoryByte(module, ptr + i - 1) ])

RECURSIVE ParseString(_, _, _)
\* the string whose opening quote is before b[i]: its text and the index
\* after its closing quote
ParseString(b, i, acc) ==
    IF b[i] = Quote THEN [ v |-> acc, n |-> i + 1 ]
    ELSE IF b[i] = Backslash THEN ParseString(b, i + 2, Append(acc, b[i + 1]))
    ELSE ParseString(b, i + 1, Append(acc, b[i]))

RECURSIVE ParseStrings(_, _, _)
\* the strings of the array whose `[` is before b[i]
ParseStrings(b, i, acc) ==
    IF b[i] = "]" THEN [ v |-> acc, n |-> i + 1 ]
    ELSE IF b[i] = "," THEN ParseStrings(b, i + 1, acc)
    ELSE LET str == ParseString(b, i + 1, <<>>)
         IN ParseStrings(b, str.n, Append(acc, str.v))

RECURSIVE ParseMembers(_, _, _)
\* the members of the object whose `{` is before b[i]
ParseMembers(b, i, acc) ==
    IF b[i] = "}" THEN [ v |-> acc, n |-> i + 1 ]
    ELSE IF b[i] = "," THEN ParseMembers(b, i + 1, acc)
    ELSE LET key == ParseString(b, i + 1, <<>>)
             value == IF b[key.n + 1] = "["
                      THEN ParseStrings(b, key.n + 2, <<>>)
                      ELSE ParseString(b, key.n + 2, <<>>)
         IN ParseMembers(b, value.n, acc @@ (key.v[1] :> value.v))

RECURSIVE ParseRecords(_, _, _)
\* the objects of the array whose `[` is before b[i]
ParseRecords(b, i, acc) ==
    IF b[i] = "]" THEN acc
    ELSE IF b[i] = "," THEN ParseRecords(b, i + 1, acc)
    ELSE LET record == ParseMembers(b, i + 1, <<>>)
         IN ParseRecords(b, record.n, Append(acc, record.v))

\* JSON.parse of the payload
ParseJson(b) == ParseRecords(b, 2, <<>>)

InitPayload ==
    /\ articles_in \in ListsUpTo(PayloadArticles, MaxRecords)
    /\ wasm = NoneV
    /\ parsed = NoneV
    /\ fs = CacheFiles(0, 0)
    /\ theme = "t1"
    /\ hooks = <<>>
    /\ cache = [ k \in {} |-> 0 ]
    /\ lastStore = NoneV
    /\ PipeIdle
    /\ ResolveIdle
    /\ EngineIdle
    /\ ServeIdle
    /\ HashIdle
    /\ SearchIdle
    /\ CacheCallIdle
    /\ PluginsIdle
    /\ ExtractIdle
    /\ OpenIdle
    /\ NamingIdle

\* Searcher::build_wasm
BuildWasm ==
    /\ wasm = NoneV
    /\ wasm' = Some(EncodePayloadAsWasm(ExportRecords(articles_in)))
    /\ UNCHANGED <<articles_in, parsed, cacheVars, pipeVars, resolveVars, engineVars,
                   serveVars, hashVars, searchVars, cacheIoVars, pluginVars, extractVars, openVars, namingVars>>

\* the page's script: instantiate, read the data, parse it
LoadSearchData ==
    /\ IsSome(wasm)
    /\ parsed = NoneV
    /\ LET bytes == ReadSearchData(Unwrap(wasm))
       IN parsed' = IF IsSome(bytes) THEN Some(ParseJson(Unwrap(bytes)))
                    ELSE Some("trap")
    /\ UNCHANGED <<articles_in, wasm, cacheVars, pipeVars, resolveVars, engineVars,
                   serveVars, hashVars, searchVars, cacheIoVars, pluginVars, extractVars, openVars, namingVars>>

NextPayload == BuildWasm \/ LoadSearchData

SpecPayload == InitPayload /\ [][NextPayload]_vars

\* what the payload says of one article
SearchRecordOf(a) ==
    [ title |-> a.title, slug |-> a.slug, category |-> a.category,
      description |-> a.description, permalink |-> OutputFile(a),
      locale |-> a.locale, default_locale |-> a.default_locale ]

\* C14: what a reader parses from memory [0, thought_search_data_len()) at
\* thought_search_data_ptr() = 0 is, article by article in stream order, the
\* record (title, slug, category, description, permalink, locale,
\* default_locale) of the article; the payload of a workspace without
\* articles is the empty array.
C14_PayloadRoundTrip ==
    /\ IsSome(wasm) =>
         /\ Unwrap(wasm).thought_search_data_ptr = 0
         /\ articles_in = <<>> => Unwrap(wasm).data = <<"[", "]">>
    /\ IsSome(parsed) =>
         Unwrap(parsed) = [ i \in 1..Len(articles_in) |-> SearchRecordOf(articles_in[i]) ]

\* a payload of two articles has been read back, one of a title with a quote
\* and one of another locale in a category
C14_Witness ==
    /\ IsSome(parsed)
    /\ Len(articles_in) = 2
    /\ articles_in[1].title = <<Quote, "}">>
    /\ articles_in[2].locale = Zh
    /\ articles_in[2].category /= <<>>

(***************************************************************************)
(* SpecCacheIo: calls of RenderCache::hit and RenderCache::store           *)
(* (src/src/cache.rs) on a database whose steps can fail, between edits of *)
(* the article and changes of the theme.                                   *)
(***************************************************************************)
\* the steps of hit that can fail: begin_read, open_table, get,
\* bincode::deserialize, and the join of the blocking task
HitFaults == {"none", "begin_read", "open_table", "get", "deserialize", "join"}

\* the steps of store that can fail: bincode::serialize, begin_write,
\* open_table, insert, commit, and the join of the blocking task
StoreFaults == {"none", "serialize", "begin_write", "open_table", "insert", "commit", "join"}

\* store reports success whatever failed
StoreOutcomeIgnored(fault) == "Ok"

\* the `?` of every step of store: the first failure is the Err returned
StoreOutcome(fault) == IF fault = "none" THEN "Ok" ELSE "Err"

\* the `.ok()?` of every step of hit: a failure is None
HitOutcome(fault, table, a, theme_fp) ==
    IF fault = "none" THEN Hit(table, a, theme_fp) ELSE NoneV

\* cache.hit(article, theme_fingerprint)
HitCall(r, fault) ==
    LET opened == OpenWithLocale(CacheRoot, fs, r[1], r[2])
    IN /\ IsSome(opened)
       /\ cacheCall' = [ op |-> "hit", fault |-> fault, before |-> cache,
                         result |-> HitOutcome(fault, cache, Unwrap(opened),
                                               ThemeFingerprint(theme)) ]
       /\ UNCHANGED <<cacheVars, pipeVars, resolveVars, engineVars, serveVars,
                      hashVars, searchVars, wasmVars, pluginVars, extractVars, openVars, namingVars>>

\* cache.store(article, html, theme_fingerprint) of the html just rendered;
\* a transaction that does not commit leaves the table as it was
StoreCall(r, fault) ==
    LET opened == OpenWithLocale(CacheRoot, fs, r[1], r[2])
        a == Unwrap(opened)
        fp == ThemeFingerprint(theme)
    IN /\ IsSome(opened)
       /\ cache' = IF fault = "none"
                   THEN Store(cache, a, RenderArticle(theme, hooks, a), fp)
                   ELSE cache
       /\ cacheCall' = [ op |-> "store", fault |-> fault, before |-> cache,
                         result |-> StoreOutcome(fault) ]
       /\ UNCHANGED <<fs, theme, hooks, lastStore, pipeVars, resolveVars, engineVars,
                      serveVars, hashVars, searchVars, wasmVars, pluginVars, extractVars, openVars, namingVars>>

NextCacheIo ==
    \/ \E doc \in Docs : EditBody(doc)
    \/ \E t \in Themes : ChangeTheme(t)
    \/ \E r \in CacheRequests, fault \in HitFaults : HitCall(r, fault)
    \/ \E r \in CacheRequests, fault \in StoreFaults : StoreCall(r, fault)

SpecCacheIo == InitCache /\ [][NextCacheIo]_vars

\* C15: a hit whose read transaction, table, key fetch or deserialization
\* fails returns None and leaves the cache contents as they were (as every
\* hit does); a store whose serialization, write transaction, insert or
\* commit fails returns the error, and only a store without failure
\* returns Ok.
C15_AdvisoryReadsStrictWrites ==
    /\ cacheCall.op = "hit" =>
         /\ cache = cacheCall.before
         /\ cacheCall.fault /= "none" => cacheCall.result = NoneV
    /\ cacheCall.op = "store" =>
         (cacheCall.result = "Err" <=> cacheCall.fault /= "none")

\* a hit has failed at the deserialization of an entry that a read without
\* failure returns for the article as it is now
C15_Witness ==
    /\ cacheCall.op = "hit"
    /\ cacheCall.fault = "deserialize"
    /\ \E a \in LiveArticles : IsSome(Hit(cache, a, ThemeFingerprint(theme)))

(***************************************************************************)
(* SpecRender: one on-demand render of an article that the cache does not  *)
(* hold (serve.rs render_article_for, render_article): the guest calls of  *)
(* the pipeline, then the store in the cache, then the output file.        *)
(***************************************************************************)
\* the store is reached after a failed guest call too
RenderedOrFailed == pc \in {"done", "failed"}

\* `.render_article(article.clone()).map_err(ServeError::internal)?`: the
\* rest of render_article runs only when the guest calls returned Ok
Rendered == pc = "done"

\* the error of the guest call is mapped to ServeError::Internal and returned
ReturnInternal ==
    /\ pc = "failed"
    /\ pc' = "Internal"
    /\ UNCHANGED <<pArticle, pIdx, pCur, pHtml, pLog, cacheVars, resolveVars, engineVars,
                   serveVars, hashVars, searchVars, wasmVars, cacheIoVars, pluginVars, extractVars, openVars, namingVars>>

\* store_cache_html(&article, &rendered)
StoreRendered(ok) ==
    /\ Rendered
    /\ IF ok
       THEN /\ cache' = [ k \in DOMAIN cache \cup {ArticleKey(Unwrap(pArticle))} |->
                            IF k = ArticleKey(Unwrap(pArticle))
                            THEN [ article |-> pArticle, html |-> pHtml,
                                   theme_fingerprint |-> ThemeFingerprint(theme) ]
                            ELSE cache[k] ]
            /\ pc' = "stored"
       ELSE /\ pc' = "StoreError"
            /\ UNCHANGED cache
    /\ UNCHANGED <<fs, theme, hooks, lastStore, pArticle, pIdx, pCur, pHtml, pLog,
                   resolveVars, engineVars, serveVars, hashVars, searchVars, wasmVars,
                   cacheIoVars, pluginVars, extractVars, openVars, namingVars>>

\* write(&output_path, html.as_bytes()), then the response
WriteRendered(ok) ==
    /\ pc = "stored"
    /\ IF ok
       THEN /\ output' = WriteFile(output, OutputFile(Unwrap(pArticle)), pHtml)
            /\ pc' = "Ok"
       ELSE /\ pc' = "WriteError"
            /\ UNCHANGED output
    /\ UNCHANGED <<map, articles_preview, changed_articles, render_task, awaitIdx, epc,
                   pArticle, pIdx, pCur, pHtml, pLog, cacheVars, resolveVars,
                   serveVars, hashVars, searchVars, wasmVars, cacheIoVars, pluginVars, extractVars, openVars, namingVars>>

NextRender ==
    \/ \E ok \in BOOLEAN : PreRenderStep(ok)
    \/ \E ok \in BOOLEAN : ThemeStep(ok)
    \/ \E ok \in BOOLEAN : PostRenderStep(ok)
    \/ EmitHtml
    \/ ReturnInternal
    \/ \E ok \in BOOLEAN : StoreRendered(ok)
    \/ \E ok \in BOOLEAN : WriteRendered(ok)

SpecRender == InitPipeline /\ [][NextRender]_vars

\* a step taken after a guest call failed
StepAfterFailure ==
    pc \in {"failed", "Internal"} =>
        (pLog' = pLog /\ cache' = cache /\ output' = output /\ pc' = "Internal")

\* C16: once a hook's on_pre_render or on_post_render or the theme has failed
\* for the article, every later step leaves the guest calls made, the render
\* cache and the output directory as they are, and the one step that follows
\* hands ServeError::Internal to the caller.
C16_RenderAborted == [][StepAfterFailure]_vars

\* the caller has the error of a post-render hook that failed after the theme
\* and another hook had run; nothing is stored and nothing is written
C16_Witness ==
    /\ pc = "Internal"
    /\ Len(hooks) = 2
    /\ Len(pLog) = 4
    /\ pLog[4].call = "on_post_render"
    /\ cache = << >>
    /\ output = << >>

(***************************************************************************)
(* SpecPlugins: calls of resolve_plugin for one plugin name, each followed *)
(* or not by ResolvedPlugin::build (src/src/plugin/resolver.rs).  The      *)
(* locator changes from call to call; a fetch, clone, unpack or copy can   *)
(* fail; the local file operations on the cache directory succeed.         *)
(***************************************************************************)
MaxVersion == 2

\* the locators a manifest can give the plugin
PluginLocators ==
    { [ kind |-> "CratesIo", version |-> v ] : v \in 1..MaxVersion }
    \cup { [ kind |-> "Git", url |-> "u", rev |-> r, branch |-> b ] :
             r \in {NoneV, Some("r")}, b \in {NoneV, Some("b")} }
    \cup { [ kind |-> "Local", path |-> "p" ], [ kind |-> "Url", url |-> "u" ] }

\* serde_json::to_vec(locator) of the untagged enum: the fields of the
\* variant, without the name of the variant
LocatorStamp(l) == [ f \in DOMAIN l \ {"kind"} |-> l[f] ]

\* `!matches!(locator, PluginLocator::Local { .. })`
AllowReuse(l) == l.kind /= "Local"

\* an existing directory is reused whatever its .locator.json holds
ReuseWheneverPresent(dir, l) == AllowReuse(l) /\ dir.exists

\* reuse_existing: the directory is there and .locator.json reads as the stamp
ReuseExisting(dir, l) ==
    AllowReuse(l) /\ dir.exists /\ dir.stamp = Some(LocatorStamp(l))

\* no locator is refused
NeverBothSet(l) == FALSE

\* `rev.is_some() && branch.is_some()`
BothSet(l) == l.kind = "Git" /\ IsSome(l.rev) /\ IsSome(l.branch)

InitPlugins ==
    /\ fs = CacheFiles(0, 0)
    /\ theme = "t1"
    /\ hooks = <<>>
    /\ cache = [ k \in {} |-> 0 ]
    /\ lastStore = NoneV
    /\ PipeIdle
    /\ ResolveIdle
    /\ EngineIdle
    /\ ServeIdle
    /\ HashIdle
    /\ SearchIdle
    /\ WasmIdle
    /\ CacheCallIdle
    /\ PluginsIdle
    /\ ExtractIdle
    /\ OpenIdle
    /\ NamingIdle

\* resolve_plugin(workspace, name, locator).  fetchOk: the download, clone,
\* unpack or copy succeeds; left: a failed one leaves a directory behind;
\* wasm_ready: the materialized tree holds main.wasm; manifestOk: Plugin.toml
\* of the directory opens
ResolvePlugin(l, fetchOk, left, wasm_ready, manifestOk) ==
    LET reuse_existing == ReuseExisting(plugin_dir, l)
        removed == ~reuse_existing /\ plugin_dir.exists
        force_build == l.kind = "Local"
        opened == IF manifestOk THEN "Ok" ELSE "FailToOpenPluginManifest"
        call == [ NoResolveCall EXCEPT !.locator = Some(l), !.before = plugin_dir,
                                       !.reused = reuse_existing, !.removed = removed,
                                       !.force_build = force_build ]
    IN /\ IF reuse_existing
          THEN /\ UNCHANGED plugin_dir
               /\ rCall' = [ call EXCEPT !.result = opened,
                                         !.built = plugin_dir.wasm /\ ~force_build ]
          ELSE IF BothSet(l)
          THEN /\ plugin_dir' = NoPluginDir
               /\ rCall' = [ call EXCEPT !.result = "InvalidLocator" ]
          ELSE IF ~fetchOk
          THEN /\ plugin_dir' = IF left
                                THEN [ NoPluginDir EXCEPT !.exists = TRUE ]
                                ELSE NoPluginDir
               /\ rCall' = [ call EXCEPT !.result = "Err", !.fetched = TRUE ]
          ELSE /\ plugin_dir' = [ exists |-> TRUE,
                                  stamp |-> IF AllowReuse(l) THEN Some(LocatorStamp(l))
                                            ELSE NoneV,
                                  source |-> Some(l),
                                  wasm |-> wasm_ready ]
               /\ rCall' = [ call EXCEPT !.result = opened, !.fetched = TRUE,
                                         !.stamped = AllowReuse(l),
                                         !.built = wasm_ready /\ ~force_build ]
       /\ UNCHANGED <<cacheVars, pipeVars, resolveVars, engineVars, serveVars, hashVars,
                      searchVars, wasmVars, cacheIoVars, extractVars, openVars, namingVars>>

\* ResolvedPlugin::build on the plugin the last call returned
Build(ok) ==
    /\ rCall.result = "Ok"
    /\ ~rCall.build_ran
    /\ IF rCall.built /\ ~rCall.force_build
       THEN UNCHANGED <<plugin_dir, rCall>>
       ELSE /\ rCall' = [ rCall EXCEPT !.build_ran = TRUE, !.built = ok ]
            /\ plugin_dir' = IF ok THEN [ plugin_dir EXCEPT !.wasm = TRUE ] ELSE plugin_dir
    /\ UNCHANGED <<cacheVars, pipeVars, resolveVars, engineVars, serveVars, hashVars,
                   searchVars, wasmVars, cacheIoVars, extractVars, openVars, namingVars>>

NextPlugins ==
    \/ \E l \in PluginLocators, fetchOk, left, wasm_ready, manifestOk \in BOOLEAN :
          ResolvePlugin(l, fetchOk, left, wasm_ready, manifestOk)
    \/ \E ok \in BOOLEAN : Build(ok)

SpecPlugins == InitPlugins /\ [][NextPlugins]_vars

C20_CacheReuse ==
    IsSome(rCall.locator) =>
      LET l == Unwrap(rCall.locator)
          dir == rCall.before
      IN /\ l.kind /= "Local" =>
               (rCall.reused <=> (dir.exists /\ dir.stamp = Some(LocatorStamp(l))))
         /\ rCall.reused =>
               /\ ~rCall.removed /\ ~rCall.fetched /\ ~rCall.stamped
               /\ plugin_dir.exists /\ plugin_dir.stamp = dir.stamp
               /\ plugin_dir.source = dir.source
         /\ ~rCall.reused =>
               /\ rCall.removed <=> dir.exists
               /\ rCall.result = "Ok" => rCall.fetched
               /\ (rCall.result = "Ok" /\ l.kind /= "Local") =>
                     /\ rCall.stamped
                     /\ plugin_dir.stamp = Some(LocatorStamp(l))
                     /\ plugin_dir.source = Some(l)
         /\ l.kind = "Local" =>
               /\ ~rCall.reused /\ ~rCall.stamped
               /\ rCall.result = "Ok" =>
                     /\ rCall.fetched /\ rCall.force_build
                     /\ plugin_dir.stamp = NoneV
                     /\ ~rCall.build_ran => ~rCall.built

\* a directory that an earlier call filled from crates.io and stamped was
\* reused by a call with the same locator
C20_Witness ==
    /\ rCall.reused
    /\ rCall.result = "Ok"
    /\ Unwrap(rCall.locator).kind = "CratesIo"
    /\ plugin_dir.stamp = Some(LocatorStamp(Unwrap(rCall.locator)))

\* C29: a call of resolve_plugin that returns an error leaves the plugin
\* cache unchanged: a directory of the plugin materialized before the call,
\* with its .locator.json and its files, is as it was before the call.
C29_FailureKeepsCache ==
    (IsSome(rCall.locator) /\ rCall.result /= "Ok" /\ rCall.before.exists)
    => plugin_dir = rCall.before

(***************************************************************************)
(* SpecExtract: extract (src/src/article.rs) over the events the markdown  *)
(* parser yields for a document: Start and End of a heading or paragraph   *)
(* and one Text per inline text fragment (the Start and End of emphasis    *)
(* and the like fall in the `_` arm and are left out).                     *)
(***************************************************************************)
MaxBlocks == 3

\* the blocks of the documents: an H1 of one or two text fragments, an H2,
\* a paragraph of one or two fragments
MdBlocks ==
    { [ kind |-> "h1", texts |-> t ] : t \in { << <<"a">> >>, << <<"a">>, <<"b">> >> } }
    \cup { [ kind |-> "h2", texts |-> << <<"x">> >> ] }
    \cup { [ kind |-> "p", texts |-> t ] : t \in { << <<"c">> >>, << <<"c">>, <<"d">> >> } }

\* Parser::new(input): the events of one block
BlockEvents(b) ==
    << [ ev |-> "Start", tag |-> b.kind ] >>
    \o [ i \in 1..Len(b.texts) |-> [ ev |-> "Text", text |-> b.texts[i] ] ]
    \o << [ ev |-> "End", tag |-> b.kind ] >>

RECURSIVE DocEvents(_)
DocEvents(doc) ==
    IF Len(doc) = 0 THEN <<>> ELSE BlockEvents(Head(doc)) \o DocEvents(Tail(doc))

\* one turn of `for event in parser { match event { .. } }`
OnEvent(x, e) ==
    IF e.ev = "Start" /\ e.tag \in {"h1", "h2"}
    THEN IF e.tag = "h1" /\ x.title = NoneV
         THEN [ x EXCEPT !.in_title_heading = TRUE ] ELSE x
    ELSE IF e.ev = "End" /\ e.tag \in {"h1", "h2"}
    THEN IF e.tag = "h1" /\ x.in_title_heading
         THEN [ x EXCEPT !.in_title_heading = FALSE ] ELSE x
    ELSE IF e.ev = "Start" /\ e.tag = "p"
    THEN IF IsSome(x.title) /\ ~x.description_found
         THEN [ x EXCEPT !.in_description_paragraph = TRUE ] ELSE x
    ELSE IF e.ev = "End" /\ e.tag = "p"
    THEN IF x.in_description_paragraph
         THEN [ x EXCEPT !.in_description_paragraph = FALSE, !.description_found = TRUE ]
         ELSE x
    ELSE IF e.ev = "Text"
    THEN IF x.in_title_heading THEN [ x EXCEPT !.title = Some(e.text) ]
         ELSE IF x.in_description_paragraph
         THEN [ x EXCEPT !.description = @ \o e.text ]
         ELSE x
    ELSE x

\* `[weekday repr:short] [day padding:none] [month repr:short]` of created
FormatCreated(created) == <<"weekday day month", created>>

\* `extraction.title.unwrap_or_else(|| created.format(..))`
ArticleTitle(x, created) ==
    IF IsSome(x.title) THEN Unwrap(x.title) ELSE FormatCreated(created)

InitExtract ==
    /\ md \in ListsUpTo(MdBlocks, MaxBlocks)
    /\ events = DocEvents(md)
    /\ extraction = NoExtraction
    /\ fs = CacheFiles(0, 0)
    /\ theme = "t1"
    /\ hooks = <<>>
    /\ cache = [ k \in {} |-> 0 ]
    /\ lastStore = NoneV
    /\ PipeIdle
    /\ ResolveIdle
    /\ EngineIdle
    /\ ServeIdle
    /\ HashIdle
    /\ SearchIdle
    /\ WasmIdle
    /\ CacheCallIdle
    /\ PluginsIdle
    /\ OpenIdle
    /\ NamingIdle

\* extract consumes the next event
ExtractEvent ==
    /\ events /= <<>>
    /\ extraction' = OnEvent(extraction, Head(events))
    /\ events' = Tail(events)
    /\ UNCHANGED <<md, cacheVars, pipeVars, resolveVars, engineVars, serveVars, hashVars,
                   searchVars, wasmVars, cacheIoVars, pluginVars, openVars, namingVars>>

NextExtract == ExtractEvent

SpecExtract == InitExtract /\ [][NextExtract]_vars

RECURSIVE ConcatTexts(_)
\* the whole text of a block
ConcatTexts(texts) ==
    IF Len(texts) = 0 THEN <<>> ELSE Head(texts) \o ConcatTexts(Tail(texts))

\* the place of the first H1 among the blocks, 0 without one
FirstH1(doc) ==
    IF \E i \in 1..Len(doc) : doc[i].kind = "h1"
    THEN CHOOSE i \in 1..Len(doc) :
            doc[i].kind = "h1" /\ \A j \in 1..(i - 1) : doc[j].kind /= "h1"
    ELSE 0

\* C21: when extract has consumed the document, the title of the article is
\* the whole text of the first H1 heading, all its fragments joined, and is
\* the formatted creation date when there is no H1.
C21_TitleIsFirstH1 ==
    events = <<>> =>
        ArticleTitle(extraction, 0) =
            IF FirstH1(md) = 0 THEN FormatCreated(0)
            ELSE ConcatTexts(md[FirstH1(md)].texts)

\* C22: when extract has consumed the document, the description is the text
\* of the paragraph that comes immediately after the first H1, and is empty
\* when the block after the first H1 is not a paragraph or there is no H1.
C22_DescriptionIsNextParagraph ==
    events = <<>> =>
        extraction.description =
            IF FirstH1(md) /= 0 /\ FirstH1(md) < Len(md) /\ md[FirstH1(md) + 1].kind = "p"
            THEN ConcatTexts(md[FirstH1(md) + 1].texts)
            ELSE <<>>

(***************************************************************************)
(* Article::open_with_locale on one article directory: the .md files are   *)
(* named by their stems, Article.toml gives an optional lang, and language *)
(* detection of a file's text is an input of the call.                     *)
(***************************************************************************)

\* the stem of article.md
ArticleStem == <<"a", "r", "t", "i", "c", "l", "e">>

\* the stems of the .md files a directory may hold
MdStems == {ArticleStem} \cup Locales

\* the article directories: any set of .md files, any lang in Article.toml
MdDirs == [ stems : SUBSET MdStems, lang : {NoneV} \cup { Some(l) : l \in Locales } ]

\* resolve_default_locale_from_disk: the lang of the metadata when it is set,
\* otherwise what detection finds in the files, "en" when there is no file
\* to detect from
ResolveDefaultLocaleFromDisk(dir, detected) ==
    IF IsSome(dir.lang) THEN Unwrap(dir.lang)
    ELSE IF dir.stems = {} THEN En
    ELSE detected

\* parse_locale_from_filename for a .md file of the given stem
ParseLocaleFromFilename(stem, default_locale) ==
    IF stem = ArticleStem THEN default_locale ELSE stem

\* enumerate_locales: one variant for every .md file of the directory
EnumerateVariants(dir, default_locale) ==
    { ParseLocaleFromFilename(stem, default_locale) : stem \in dir.stems }

\* locale_to_path: the stem of the file that holds the text of a locale
LocaleToPath(locale, default_locale) ==
    IF locale = default_locale THEN ArticleStem ELSE locale

\* the result of open_with_locale on a directory that exists, with the
\* locale the caller asked for and the locales enumerate_locales found
OpenArticleDir(dir, locale, detected) ==
    LET default_locale == ResolveDefaultLocaleFromDisk(dir, detected)
        available == EnumerateVariants(dir, default_locale)
        target_locale == IF IsSome(locale) THEN Unwrap(locale) ELSE default_locale
        content_path == LocaleToPath(target_locale, default_locale)
    IN  IF available = {} \/ content_path \notin dir.stems
        THEN [ ok |-> FALSE, requested |-> locale, locale |-> NoneV,
               default_locale |-> NoneV, translations |-> {}, discovered |-> {} ]
        ELSE [ ok |-> TRUE, requested |-> locale, locale |-> Some(target_locale),
               default_locale |-> Some(default_locale),
               translations |-> available, discovered |-> available ]

InitOpen ==
    /\ article_dir \in MdDirs
    /\ last_open = NoneV
    /\ fs = CacheFiles(0, 0)
    /\ theme = "t1"
    /\ hooks = <<>>
    /\ cache = [ k \in {} |-> 0 ]
    /\ lastStore = NoneV
    /\ PipeIdle
    /\ ResolveIdle
    /\ EngineIdle
    /\ ServeIdle
    /\ HashIdle
    /\ SearchIdle
    /\ WasmIdle
    /\ CacheCallIdle
    /\ PluginsIdle
    /\ ExtractIdle
    /\ NamingIdle

\* one call of Article::open (no locale) or Article::open_with_locale
OpenCall(locale, detected) ==
    /\ last_open' = Some(OpenArticleDir(article_dir, locale, detected))
    /\ UNCHANGED <<article_dir, cacheVars, pipeVars, resolveVars, engineVars, serveVars,
                   hashVars, searchVars, wasmVars, cacheIoVars, pluginVars, extractVars, namingVars>>

NextOpen ==
    \E locale \in {NoneV} \cup { Some(l) : l \in MdStems }, detected \in Locales :
        OpenCall(locale, detected)

SpecOpen == InitOpen /\ [][NextOpen]_vars

\* C23: every article that open or open_with_locale returns has a locale
\* among the locales discovered on disk and a translations list with an
\* entry for its default locale.
C23_LocaleAndDefaultAmongTranslations ==
    (IsSome(last_open) /\ Unwrap(last_open).ok) =>
        /\ Unwrap(Unwrap(last_open).locale) \in Unwrap(last_open).discovered
        /\ Unwrap(Unwrap(last_open).default_locale) \in Unwrap(last_open).translations

(***************************************************************************)
(* SpecServeCache: the preview server started on a cache.redb that is      *)
(* empty or holds the page of c/s rendered under another theme.            *)
(***************************************************************************)
\* the entry of c/s left in cache.redb by a run with theme t2
StaleCache ==
    LET a == Unwrap(OpenWithLocale(ServeRoot, ServeFiles, <<CatC, SlugS>>, NoneV))
    IN Store(<< >>, a, RenderArticle("t2", <<"h1">>, a), ThemeFingerprint("t2"))

InitServeCache ==
    /\ fs = ServeFiles
    /\ theme = "t1"
    /\ hooks = <<"h1">>
    /\ cache \in {<< >>, StaleCache}
    /\ lastStore = << >>
    /\ PipeIdle
    /\ ResolveIdle
    /\ EngineIdle
    /\ requests = [ r \in Reqs |-> IdleRequest ]
    /\ article_guards = << >>
    /\ mutexes = <<>>
    /\ index_dirty = TRUE
    /\ index_fingerprint = NoneV
    /\ search_ready = TRUE
    /\ index_lock = 0
    /\ search_lock = 0
    /\ index_due = FALSE
    /\ HashIdle
    /\ SearchIdle
    /\ WasmIdle
    /\ CacheCallIdle
    /\ PluginsIdle
    /\ ExtractIdle
    /\ OpenIdle
    /\ NamingIdle

SpecServeCache == InitServeCache /\ [][NextServe]_vars

\* the lookup of the request answered Some(html)
LookupHit(q) == IsSome(q.looked) /\ IsSome(Unwrap(q.looked))

\* the lookup of the request answered None
LookupMiss(q) == q.looked = Some(NoneV)

\* C24: a render request runs the plugin pipeline if and only if its cache
\* lookup missed: after a hit the pipeline is not run, the cache is not
\* written and the html of the request is the cached html; after a miss
\* (also when the entry under the key carries another theme fingerprint) the
\* pipeline runs exactly once and its result is stored under the current
\* theme fingerprint; two completed renders of the same unchanged article
\* whose cache reads succeeded run the pipeline at most once together.
C24_PipelineIffMiss ==
    /\ \A r \in Reqs :
        LET q == requests[r]
        IN /\ q.pipeline_runs <= 1
           /\ q.pipeline_runs = 1 => LookupMiss(q)
           /\ (LookupMiss(q) /\ q.pc /= "render") => q.pipeline_runs = 1
           /\ LookupHit(q) =>
                /\ q.pipeline_runs = 0
                /\ ~q.stored
                /\ q.html = Unwrap(q.looked)
           /\ q.stored => LookupMiss(q)
           /\ (q.stored /\ q.pc = "write") =>
                LET a == Unwrap(q.article)
                IN /\ ArticleKey(a) \in DOMAIN cache
                   /\ cache[ArticleKey(a)] =
                        FromArticle(a, RenderArticle(theme, hooks, a), ThemeFingerprint(theme))
    /\ \A r1, r2 \in Reqs :
        (/\ r1 /= r2
         /\ requests[r1].resp = "html" /\ requests[r2].resp = "html"
         /\ requests[r1].article = requests[r2].article
         /\ requests[r1].read_ok /\ requests[r2].read_ok)
        => requests[r1].pipeline_runs + requests[r2].pipeline_runs <= 1

\* C24 witness: c/s was rendered twice: the first request found the entry of
\* another theme, ran the pipeline and stored; the second was a hit
C24_Witness ==
    \E r1, r2 \in Reqs :
        /\ r1 /= r2
        /\ requests[r1].resp = "html" /\ requests[r2].resp = "html"
        /\ requests[r1].article = requests[r2].article
        /\ LookupMiss(requests[r1])
        /\ requests[r1].found_fp = Some(ThemeFingerprint("t2"))
        /\ requests[r1].pipeline_runs = 1 /\ requests[r1].stored
        /\ LookupHit(requests[r2])
        /\ requests[r2].pipeline_runs = 0

(***************************************************************************)
(* SpecNaming: the names of article variants.  Two variants lie on disk;   *)
(* the preview server resolves the request path that is the output_file of *)
(* a variant, and the render cache stores variants under article_key.  A   *)
(* slug is the name of an article directory and may hold a dot.            *)
(***************************************************************************)
\* the names of article directories: s, t and s.zh
Slugs == { SlugS, SlugT, SlugS \o Dot \o Zh }

\* the variants: articles of default locale en, in en and in zh
Variants ==
    [ category : { <<>>, <<CatC>> }, slug : Slugs, locale : Locales, default_locale : {En} ]

InitNaming ==
    /\ on_disk \in { pair \in SUBSET Variants : Cardinality(pair) = 2 }
    /\ resolved = NoneV
    /\ key_table = << >>
    /\ stored_variants = {}
    /\ fs = CacheFiles(0, 0)
    /\ theme = "t1"
    /\ hooks = <<>>
    /\ cache = [ k \in {} |-> 0 ]
    /\ lastStore = NoneV
    /\ PipeIdle
    /\ ResolveIdle
    /\ EngineIdle
    /\ ServeIdle
    /\ HashIdle
    /\ SearchIdle
    /\ WasmIdle
    /\ CacheCallIdle
    /\ PluginsIdle
    /\ ExtractIdle
    /\ OpenIdle

\* serve_path and render_article_for on the output_file of a variant, up to
\* the segments and the locale given to open_with_locale
ResolveRequest(v) ==
    /\ LET sanitized == SanitizeRelativePath(OutputFile(v))
           segments == IF IsSome(sanitized) THEN PathSegments(Unwrap(sanitized)) ELSE NoneV
       IN resolved' = Some([ variant |-> v,
                             result |-> IF IsSome(segments)
                                        THEN SplitLocaleFromSegments(Unwrap(segments))
                                        ELSE NoneV ])
    /\ UNCHANGED <<on_disk, key_table, stored_variants, cacheVars, pipeVars, resolveVars,
                   engineVars, serveVars, hashVars, searchVars, wasmVars, cacheIoVars,
                   pluginVars, extractVars, openVars>>

\* RenderCache::store of a variant: the entry under article_key is replaced
StoreVariant(v) ==
    /\ key_table' = [ k \in DOMAIN key_table \cup {ArticleKey(v)} |->
                        IF k = ArticleKey(v) THEN v ELSE key_table[k] ]
    /\ stored_variants' = stored_variants \cup {v}
    /\ UNCHANGED <<on_disk, resolved, cacheVars, pipeVars, resolveVars,
                   engineVars, serveVars, hashVars, searchVars, wasmVars, cacheIoVars,
                   pluginVars, extractVars, openVars>>

NextNaming ==
    \E v \in on_disk :
        \/ ResolveRequest(v)
        \/ StoreVariant(v)

SpecNaming == InitNaming /\ [][NextNaming]_vars

\* C26: resolving the request path equal to the output_file of a variant
\* yields the category segments followed by the slug, and no locale when the
\* variant is in the default locale, its locale otherwise.
C26_ResolutionInvertsNaming ==
    IsSome(resolved) =>
        LET v == Unwrap(resolved).variant
        IN Unwrap(resolved).result =
              Some(<< v.category \o <<v.slug>>,
                      IF IsDefaultLocale(v) THEN NoneV ELSE Some(v.locale) >>)

\* C27: the render-cache key is injective over the variants: every variant
\* that was stored still has its own entry under its key, whatever other
\* variants were stored after it.
C27_KeyInjective ==
    \A v \in stored_variants :
        ArticleKey(v) \in DOMAIN key_table /\ key_table[ArticleKey(v)] = v

(***************************************************************************)
(* SpecSanitize: the preview server asked for paths with root, `.` and     *)
(* `..` components.                                                        *)
(***************************************************************************)
\* the request paths: c/s.html, /c/./s.html, ./c/s.zh.html, c/s,
\* c/../c/s.html and ../c/s.html
RawPaths ==
    { JoinWith(<<CatC, SlugS \o Dot \o Html>>, <<"/">>),
      JoinWith(<< <<>>, CatC, Dot, SlugS \o Dot \o Html >>, <<"/">>),
      JoinWith(<<Dot, CatC, SlugS \o Dot \o Zh \o Dot \o Html>>, <<"/">>),
      JoinWith(<<CatC, SlugS>>, <<"/">>),
      JoinWith(<<CatC, DotDot, CatC, SlugS \o Dot \o Html>>, <<"/">>),
      JoinWith(<<DotDot, CatC, SlugS \o Dot \o Html>>, <<"/">>) }

NextSanitize ==
    \E r \in Reqs :
        \/ \E raw \in RawPaths : ServePath(r, raw)
        \/ ArticleSteps(r)

SpecSanitize == InitServe /\ [][NextSanitize]_vars

\* the path has a `..` component
HasParentDir(raw) == \E i \in 1..Len(SplitOn(raw, "/")) : SplitOn(raw, "/")[i] = DotDot

\* a path that, joined to the build directory, names a file below it: all
\* its components are names
BelowBuildDir(path) ==
    \A i \in 1..Len(path) : path[i] \notin {<<>>, Dot, DotDot}

\* C28: every file the preview server serves or writes lies below the build
\* directory: a request whose path has a `..` component is answered NotFound
\* before any file is read or written, and the path joined to the build
\* directory is the request path without its root and `.` components.
C28_BelowBuildDir ==
    /\ \A r \in Reqs :
        LET q == requests[r]
        IN /\ HasParentDir(q.raw) =>
                (q.pc = "done" /\ q.resp = "NotFound" /\ q.html_path = <<>>)
           /\ q.html_path /= <<>> =>
                /\ BelowBuildDir(q.html_path)
                /\ q.html_path \in { NormalComponents(SplitOn(q.raw, "/")),
                                     WithExtensionHtml(NormalComponents(SplitOn(q.raw, "/"))) }
    /\ \A file \in DOMAIN output : BelowBuildDir(SplitOn(file, "/"))

\* C28 witness: the page of /c/./s.html was rendered and written to c/s.html
\* of the build directory while a request with a `..` component was
\* answered NotFound
C28_Witness ==
    \E r1, r2 \in Reqs :
        /\ requests[r1].raw = JoinWith(<< <<>>, CatC, Dot, SlugS \o Dot \o Html >>, <<"/">>)
        /\ requests[r1].resp = "html"
        /\ JoinWith(<<CatC, SlugS \o Dot \o Html>>, <<"/">>) \in DOMAIN output
        /\ HasParentDir(requests[r2].raw)
        /\ requests[r2].resp = "NotFound"

====
